---------------------------- MODULE Spec2Model ----------------------------
(***************************************************************************)
(* A model of the tldraw-sync-cloudflare worker:                           *)
(*   - the room actor (src/worker/TldrawDurableObject.ts): lazy room load, *)
(*     connect, session ledger, throttled persistence, page management;    *)
(*   - the asset subsystem (src/unnamed/part_000): whole/chunked upload.   *)
(*                                                                         *)
(* The actor is single-threaded and cooperative: a handler runs until it   *)
(* awaits; every await (blob store, token verification, fetch) is a point  *)
(* where another handler or timer may run.  Each action below is one such  *)
(* run-to-await segment of a handler.                                      *)
(*                                                                         *)
(* Strings with a separator are sequences of their segments:               *)
(*   "u1/h1" is <<"u1","h1">> (split("/")), a record id "page:p1" is the   *)
(*   pair typeName/key (split(":")).                                       *)
(* The bucket is one variable per key family (room/<id>/snapshot.json,     *)
(*   room/<id>/sessions.json, study/<user>/<id>.json, upload/...).         *)
(* A blob-store put takes effect when it is issued; puts of one actor are  *)
(*   applied in issue order.                                               *)
(***************************************************************************)
EXTENDS Integers, Sequences, FiniteSets, TLC

VARIABLES
    now,          \* the clock reading of Date.now() / new Date(), in ticks
    roomId,       \* this.roomId: <<>> (null) or the room key
    stored,       \* ctx.storage's "roomId" entry: <<>> (absent) or the room key
    pages,        \* this.pages: <<>> (null) or the fragment ids
    roomPromise,  \* this.roomPromise: [st, mode, obj]
    loads,        \* number of loads this actor instance has started
    room,         \* the TLSocketRoom the load built: [loaded, mode, clock, documents, schema]
    callers,      \* requests that called getRoom()/getStudyRoom()
    r2Snapshot,   \* room/<roomId>/snapshot.json
    r2Study,      \* study/<user>/<id>.json, by fragment id
    r2Schema,     \* study/<user>/<hash>.json
    r2Sessions,   \* room/<roomId>/sessions.json: the persisted session ledger
    connected,    \* ids of the sessions room.getSessions() reports with isConnected
    sessions,     \* this.sessions, in insertion order
    thr,          \* the state of the lodash throttle wrapper the room's onDataChange calls
    tasks,        \* invocations of the throttled persistence function in flight
    reqs,         \* connect and list-sessions requests in flight
    answer,       \* the last response sent to a connect or list-sessions request
    twice,        \* history: [has] a pass has written, [quiet] no session event since it read,
                  \* [pair] the last write ended two passes in a row without a session event
    preqs,        \* query-pages, mutate-pages and delete-pages requests in flight
    panswer,      \* the last response sent to one of these requests
    upload,       \* the upload a client is sending: [T] chunks of [payloads]
    ureqs,        \* the upload requests of that upload, by chunk index
    minted,       \* number of upload identifiers minted (new UUID())
    r2Upload,     \* upload/<name> and upload/<name>.chunk<i>: objects [uid, part, body]
    cache,        \* caches.default: the responses stored, by request URL
    puts,         \* cache writes handed to ctx.waitUntil() that have not completed
    dreq,         \* the download request in flight
    danswer       \* the last response sent to a download request

actorVars == <<roomId, stored, pages, roomPromise, loads, room>>
blobVars == <<r2Snapshot, r2Study, r2Schema, r2Sessions>>
sessVars == <<connected, sessions, reqs, answer, twice>>
thrVars == <<thr, tasks>>
pageVars == <<preqs, panswer>>
dlVars == <<cache, puts, dreq, danswer>>
upVars == <<upload, ureqs, minted, r2Upload, dlVars>>

vars == <<now, actorVars, callers, blobVars, sessVars, thrVars, pageVars, upVars>>

---------------------------------------------------------------------------
(* Bounds of the model *)

MaxCallers == 2     \* requests in flight that reached getRoom()/getStudyRoom()
MaxReqs == 1        \* connect / list-sessions requests in flight
MaxTasks == 2       \* invocations of the persistence function in flight
MaxTime == 2        \* the clock stops at this tick
MaxClock == 3       \* the room's logical clock stops at this value
MaxSessions == 2    \* distinct sessions the actor and its ledger get to know
MaxPuts == 1        \* query-pages / mutate-pages / delete-pages requests in flight
MaxOverlap == 2     \* mutate-pages requests in flight in the runs of overlapping requests
MaxBatch == 2       \* pages in one mutate-pages or delete-pages request
MaxChunks == 2      \* chunks of one upload
MaxEdits == 2       \* mutations of the room in the runs of the session ledger and of the pages
MaxSize == 3        \* bytes of a stored object that is downloaded
MaxDownloads == 2   \* download requests of one behaviour
MaxPieces == 2      \* byte pieces a chunk body is read in

\* throttle(fn, 10_000), in ticks of 5 seconds
Wait == 2

---------------------------------------------------------------------------
(* Values *)

NoRoom == <<>>
NoPages == <<>>
NoBlob == [present |-> FALSE, body |-> <<>>]
Blob(b) == [present |-> TRUE, body |-> b]

\* request.params.roomId and request.query.hash / request.query.pages
SimpleKey == <<"r1">>
StudyKey == <<"u1", "h1">>
FragIds == {"p1", "p2"}
PagesParams == {<<"p1">>, <<"p1", "p2">>}

\* records of a room snapshot: id = typeName:key, parentId = parentType:parentKey
Rec(t, k, i, pt, pk) == [typeName |-> t, key |-> k, index |-> i, parentType |-> pt, parentKey |-> pk]
PageRec(k, i) == Rec("page", k, i, "", "")
ShapeRec(k, pk) == Rec("shape", k, 1, "page", pk)

\* contents a fragment blob may have before the actor starts
FragBodies == {<<PageRec("p1", 1)>>, <<PageRec("p1", 1), ShapeRec("s1", "p1")>>}

NullPromise == [st |-> "null", mode |-> "none", obj |-> 0]
NoRoomObj == [loaded |-> FALSE, mode |-> "none", clock |-> 0, documents |-> <<>>, schema |-> "none"]
IdleCaller == [pc |-> "idle", promise |-> 0, early |-> FALSE, obj |-> 0]

\* a timestamp that is not set: "" for disconnectedAt, undefined for the throttle's fields
NoTime == -1
\* token claims: video.room, attributes.nodeId, sub, name
NoClaims == [valid |-> FALSE, room |-> <<>>, nodeId |-> <<>>, sub |-> <<>>, name |-> ""]
NoSid == <<"", 0>>
IdleReq == [kind |-> "none", pc |-> "idle", given |-> FALSE, tok |-> NoClaims,
            led |-> <<>>, quiet |-> FALSE]
NoAnswer == [kind |-> "none", given |-> FALSE, tok |-> NoClaims, status |-> 0]
Answer(k, in, st) == [kind |-> k, given |-> in.given, tok |-> in.tok, status |-> st]
\* no snapshot
NoSnap == [clock |-> 0, documents |-> <<>>]
\* [at]: history, the room state when the invocation was scheduled, kept until the
\* invocation reads the room; [late]: history, the room had changed by then
IdleTask == [pc |-> "idle", mode |-> "none", led |-> <<>>, frags |-> <<>>, quiet |-> FALSE,
             at |-> NoSnap, late |-> FALSE]
ThrInit == [lastCallTime |-> NoTime, lastInvokeTime |-> 0, timer |-> NoTime, lastArgs |-> FALSE]
NoTwice == [has |-> FALSE, quiet |-> FALSE, pair |-> FALSE]
IdlePreq == [kind |-> "none", pc |-> "idle", nodeId |-> <<>>, batch |-> <<>>, keys |-> <<>>,
             results |-> <<>>]
NoPanswer == [kind |-> "none", status |-> 0, batch |-> <<>>, pages |-> <<>>, errors |-> <<>>]
NoUpload == [T |-> 0, chunked |-> FALSE, ctype |-> "", payloads |-> <<>>]
\* [dup]: the upload name an earlier, accepted request with the same chunk index was stored under
IdleUreq == [pc |-> "idle", uid |-> 0, j |-> 0, chunks |-> <<>>, status |-> 0, dup |-> 0]

\* a Range header: none, bytes=o-e ("span"), bytes=o- ("from") or bytes=-n ("suffix")
NoRange == [form |-> "none", o |-> 0, e |-> 0]
\* a content-range header `bytes ${start}-${end}/${size}`, or none
NoContentRange == <<>>
\* [n]: the ordinal of the request; [cond]: its conditional headers ("none"), ones
\* the stored object satisfies ("pass") or ones it fails ("fail")
IdleDreq == [pc |-> "idle", n |-> 0, uid |-> 0, range |-> NoRange, cond |-> "none"]
\* [from]: "cache" or "bucket"; [size]: the size of the object the response is about
NoDanswer == [n |-> 0, status |-> 0, contentRange |-> NoContentRange, from |-> "none",
              uid |-> 0, range |-> NoRange, cond |-> "none", size |-> 0]

RECURSIVE Concat(_, _)
\* pageDocuments.push(...documents) over the fragment ids in input order
Concat(ids, frags) ==
    IF ids = <<>> THEN <<>>
    ELSE (IF frags[Head(ids)].present THEN frags[Head(ids)].body ELSE <<>>)
         \o Concat(Tail(ids), frags)

---------------------------------------------------------------------------
(* The memoized load: getRoom() and getStudyRoom() *)

\* a loader that starts over when the load it memoized has failed
getRoom_RetryRejected ==
    IF roomPromise.st \in {"null", "rejected"}
    THEN /\ roomPromise' = [st |-> "pending", mode |-> "simple", obj |-> loads + 1]
         /\ loads' = loads + 1
    ELSE UNCHANGED <<roomPromise, loads>>

\* a getRoom() that starts a load on every call
getRoom_NoMemo ==
    /\ roomPromise' = [st |-> "pending", mode |-> "simple", obj |-> loads + 1]
    /\ loads' = loads + 1

\* getRoom(): if (!this.roomPromise) this.roomPromise = (async () => ...)()
getRoom ==
    IF roomPromise.st = "null"
    THEN /\ roomPromise' = [st |-> "pending", mode |-> "simple", obj |-> loads + 1]
         /\ loads' = loads + 1
    ELSE UNCHANGED <<roomPromise, loads>>

\* getStudyRoom(): the same guard on the same field
getStudyRoom ==
    IF roomPromise.st = "null"
    THEN /\ roomPromise' = [st |-> "pending", mode |-> "study", obj |-> loads + 1]
         /\ loads' = loads + 1
    ELSE UNCHANGED <<roomPromise, loads>>

\* router: if (!this.roomId) { storage.put("roomId", ...); this.roomId = ... }
BindSimple ==
    /\ roomId' = IF roomId = NoRoom THEN SimpleKey ELSE roomId
    /\ stored' = IF roomId = NoRoom THEN SimpleKey ELSE stored
    /\ UNCHANGED pages

\* router, hash routes of /connect and GET /rooms/:roomId/pages:
\* if (!this.roomId || !this.pages) { this.roomId = `${roomId}/${hash}`; this.pages = `${pages}` }
BindStudy(pp) ==
    IF roomId = NoRoom \/ pages = NoPages
    THEN roomId' = StudyKey /\ stored' = StudyKey /\ pages' = pp
    ELSE UNCHANGED <<roomId, stored, pages>>

\* the snapshot the simple load hands to the engine
SimpleInitial ==
    IF r2Snapshot.present
    THEN [loaded |-> TRUE, mode |-> "simple", clock |-> r2Snapshot.body.clock,
          documents |-> r2Snapshot.body.documents, schema |-> "none"]
    ELSE [loaded |-> TRUE, mode |-> "simple", clock |-> 0, documents |-> <<>>, schema |-> "none"]

\* the snapshot the composite load hands to the engine
StudyInitial ==
    LET pageDocuments == Concat(pages, r2Study)
    IN [loaded |-> TRUE, mode |-> "study", clock |-> 0, documents |-> pageDocuments,
        schema |-> IF Len(pageDocuments) > 0 THEN "hardcoded"
                   ELSE IF r2Schema.present THEN "persisted" ELSE "none"]

\* a request of a simple route reaches `await this.getRoom()`
CallGetRoom(c) ==
    /\ callers[c].pc = "idle"
    /\ BindSimple
    /\ getRoom
    /\ callers' = [callers EXCEPT ![c] = [pc |-> "awaiting", promise |-> roomPromise'.obj,
                                          early |-> roomPromise.st # "resolved", obj |-> 0]]
    /\ UNCHANGED <<now, pageVars, upVars, room, blobVars, sessVars, thrVars>>

\* a request of a composite route reaches `await this.getStudyRoom()`
CallGetStudyRoom(c, pp) ==
    /\ callers[c].pc = "idle"
    /\ BindStudy(pp)
    /\ pages' # NoPages
    /\ getStudyRoom
    /\ callers' = [callers EXCEPT ![c] = [pc |-> "awaiting", promise |-> roomPromise'.obj,
                                          early |-> roomPromise.st # "resolved", obj |-> 0]]
    /\ UNCHANGED <<now, pageVars, upVars, room, blobVars, sessVars, thrVars>>

\* the load's reads return and new TLSocketRoom(...) is built: the promise resolves
LoadResolve ==
    /\ roomPromise.st = "pending"
    /\ roomPromise' = [roomPromise EXCEPT !.st = "resolved"]
    /\ room' = IF roomPromise.mode = "simple" THEN SimpleInitial ELSE StudyInitial
    /\ UNCHANGED <<now, pageVars, upVars, roomId, stored, pages, loads, callers, blobVars, sessVars, thrVars>>

\* a blob read or its parsing rejects: the promise rejects (and stays in the field)
LoadReject ==
    /\ roomPromise.st = "pending"
    /\ roomPromise' = [roomPromise EXCEPT !.st = "rejected"]
    /\ UNCHANGED <<now, pageVars, upVars, roomId, stored, pages, loads, room, callers, blobVars, sessVars, thrVars>>

\* a caller's await returns with what the promise it holds settled to
CallerResume(c) ==
    /\ callers[c].pc = "awaiting"
    /\ callers[c].promise = roomPromise.obj
    /\ roomPromise.st \in {"resolved", "rejected"}
    /\ callers' = [callers EXCEPT ![c].pc = IF roomPromise.st = "resolved" THEN "got" ELSE "failed",
                                  ![c].obj = roomPromise.obj]
    /\ UNCHANGED <<now, pageVars, upVars, actorVars, blobVars, sessVars, thrVars>>

\* the request ends
CallerDone(c) ==
    /\ callers[c].pc \in {"got", "failed"}
    /\ callers' = [callers EXCEPT ![c] = IdleCaller]
    /\ UNCHANGED <<now, pageVars, upVars, actorVars, blobVars, sessVars, thrVars>>

\* the platform evicts the actor and the constructor runs again on the next request:
\* this.roomId = storage.get("roomId"); every other field, timer and pending
\* request of the old instance is gone
Restart ==
    /\ roomPromise.st # "null"
    /\ roomPromise' = NullPromise
    /\ loads' = 0
    /\ pages' = NoPages
    /\ room' = NoRoomObj
    /\ callers' = [c \in 1..MaxCallers |-> IdleCaller]
    /\ connected' = {}
    /\ sessions' = <<>>
    /\ reqs' = [r \in 1..MaxReqs |-> IdleReq]
    /\ thr' = ThrInit
    /\ tasks' = [k \in 1..MaxTasks |-> IdleTask]
    /\ twice' = [twice EXCEPT !.quiet = FALSE]
    /\ preqs' = [q \in 1..MaxOverlap |-> IdlePreq]
    /\ roomId' = stored
    /\ UNCHANGED <<now, panswer, upVars, stored, blobVars, answer>>

\* the fields of a fresh actor instance and an untouched bucket
InitActor ==
    /\ now = 0
    /\ roomId = NoRoom
    /\ stored = NoRoom
    /\ pages = NoPages
    /\ roomPromise = NullPromise
    /\ loads = 0
    /\ room = NoRoomObj
    /\ callers = [c \in 1..MaxCallers |-> IdleCaller]
    /\ connected = {}
    /\ sessions = <<>>
    /\ reqs = [r \in 1..MaxReqs |-> IdleReq]
    /\ answer = NoAnswer
    /\ thr = ThrInit
    /\ tasks = [k \in 1..MaxTasks |-> IdleTask]
    /\ twice = NoTwice
    /\ preqs = [q \in 1..MaxOverlap |-> IdlePreq]
    /\ panswer = NoPanswer
    /\ upload = NoUpload
    /\ ureqs = [i \in 0..(MaxChunks - 1) |-> IdleUreq]
    /\ minted = 0
    /\ r2Upload = {}
    /\ cache = {}
    /\ puts = {}
    /\ dreq = IdleDreq
    /\ danswer = NoDanswer
    /\ r2Sessions = NoBlob

InitLoad ==
    /\ InitActor
    /\ r2Snapshot \in {NoBlob, Blob([clock |-> 1, documents |-> <<PageRec("p1", 1)>>])}
    /\ r2Study \in [FragIds -> {NoBlob} \cup {Blob(b) : b \in FragBodies}]
    /\ r2Schema \in {NoBlob, Blob("schema")}

NextLoad ==
    \/ \E c \in 1..MaxCallers : CallGetRoom(c)
    \/ \E c \in 1..MaxCallers, pp \in PagesParams : CallGetStudyRoom(c, pp)
    \/ LoadResolve
    \/ LoadReject
    \/ \E c \in 1..MaxCallers : CallerResume(c)
    \/ \E c \in 1..MaxCallers : CallerDone(c)
    \/ Restart

SpecLoad == InitLoad /\ [][NextLoad]_vars

---------------------------------------------------------------------------
(* The persistence scheduler: throttle(fn, 10_000) of lodash, which is     *)
(* debounce(fn, wait, {leading: true, trailing: true, maxWait: wait})      *)

\* shouldInvoke(time) of the wrapper
shouldInvoke(time) ==
    \/ thr.lastCallTime = NoTime
    \/ time - thr.lastCallTime >= Wait
    \/ time - thr.lastCallTime < 0
    \/ time - thr.lastInvokeTime >= Wait

\* a wrapper that forgets the calls made while it waits (no trailing edge)
ThrAfterCall_NoTrailing(time) ==
    IF shouldInvoke(time)
    THEN [lastCallTime |-> time, lastInvokeTime |-> time, timer |-> time + Wait, lastArgs |-> FALSE]
    ELSE [thr EXCEPT !.lastCallTime = time,
                     !.timer = IF thr.timer = NoTime THEN time + Wait ELSE thr.timer]

\* the wrapper's state after schedulePersistToR2() is called at `time`:
\* leadingEdge / the maxWait branch invoke at once and start the timer,
\* otherwise the call is remembered (lastArgs) for the trailing edge
ThrAfterCall(time) ==
    IF shouldInvoke(time)
    THEN [lastCallTime |-> time, lastInvokeTime |-> time, timer |-> time + Wait, lastArgs |-> FALSE]
    ELSE [thr EXCEPT !.lastCallTime = time, !.lastArgs = TRUE,
                     !.timer = IF thr.timer = NoTime THEN time + Wait ELSE thr.timer]

Min(a, b) == IF a < b THEN a ELSE b

\* timerExpired(): trailingEdge when due, else the timer is restarted for remainingWait
ThrAfterTimer(time) ==
    IF shouldInvoke(time)
    THEN [thr EXCEPT !.timer = NoTime, !.lastArgs = FALSE,
                     !.lastInvokeTime = IF thr.lastArgs THEN time ELSE @]
    ELSE [thr EXCEPT !.timer = time + Min(Wait - (time - thr.lastCallTime),
                                          Wait - (time - thr.lastInvokeTime))]

HasFreeTask == \E k \in 1..MaxTasks : tasks[k].pc = "idle"
FreeTask == CHOOSE k \in 1..MaxTasks : tasks[k].pc = "idle" /\ \A j \in 1..(k - 1) : tasks[j].pc # "idle"

\* the throttled function is invoked: if (!this.roomPromise || !this.roomId) return;
\* const room = await this.getRoom()  -- resumed by PersistSnapshot / StudySnapshot
Invoked(snap) ==
    IF roomPromise.st = "null" \/ roomId = NoRoom THEN tasks
    ELSE [tasks EXCEPT ![FreeTask] = [IdleTask EXCEPT !.pc = "snap", !.mode = room.mode, !.at = snap]]

\* store.put / store.delete of one record, as the engine applies it
PutDoc(docs, rec) ==
    IF \E i \in 1..Len(docs) : docs[i].typeName = rec.typeName /\ docs[i].key = rec.key
    THEN [i \in 1..Len(docs) |->
            IF docs[i].typeName = rec.typeName /\ docs[i].key = rec.key THEN rec ELSE docs[i]]
    ELSE Append(docs, rec)
DeleteDoc(docs, t, k) == SelectSeq(docs, LAMBDA d : ~(d.typeName = t /\ d.key = k))

\* the records a client pushes or removes in this model
MutRecs == {PageRec("p1", 1), ShapeRec("s1", "p1")}

\* the engine commits a mutation (a client push or an updateStore) and calls
\* onDataChange, which calls the room's throttled persistence function
DataChange(docs) ==
    /\ room.loaded
    /\ room.clock < MaxClock
    /\ docs # room.documents
    /\ shouldInvoke(now) => HasFreeTask
    /\ room' = [room EXCEPT !.clock = @ + 1, !.documents = docs]
    /\ thr' = ThrAfterCall(now)
    /\ tasks' = IF shouldInvoke(now)
                THEN Invoked([clock |-> room.clock + 1, documents |-> docs])
                ELSE tasks

Mutate(rec, del) ==
    /\ DataChange(IF del THEN DeleteDoc(room.documents, rec.typeName, rec.key)
                         ELSE PutDoc(room.documents, rec))
    /\ UNCHANGED <<now, pageVars, upVars, roomId, stored, pages, roomPromise, loads, callers, blobVars, sessVars>>

\* the wrapper's timer fires
TimerExpired ==
    /\ thr.timer # NoTime
    /\ now >= thr.timer
    /\ (shouldInvoke(now) /\ thr.lastArgs) => HasFreeTask
    /\ thr' = ThrAfterTimer(now)
    /\ tasks' = IF shouldInvoke(now) /\ thr.lastArgs
                THEN Invoked([clock |-> room.clock, documents |-> room.documents])
                ELSE tasks
    /\ UNCHANGED <<now, pageVars, upVars, actorVars, callers, blobVars, sessVars>>

\* time passes; a due timer fires before the clock moves on
Tick ==
    /\ now < MaxTime
    /\ thr.timer = NoTime \/ now < thr.timer
    /\ now' = now + 1
    /\ UNCHANGED <<actorVars, callers, blobVars, sessVars, thrVars, pageVars, upVars>>

---------------------------------------------------------------------------
(* The session ledger *)

HasId(led, id) == \E i \in 1..Len(led) : led[i].id = id

\* for (const [id, session] of Object.entries(this.sessions)) if (!sessions[id]) sessions[id] = session
Merge(led, live) == led \o SelectSeq(live, LAMBDA e : ~HasId(led, e.id))

\* the loop does not `continue`: no disconnect time yet and not reported connected
Stamps(e, conn) == e.disconnectedAt = NoTime /\ e.id \notin conn

\* a pass that stamps every session that is not connected
Stamp_Always(e, conn, time) ==
    IF e.id \notin conn THEN [e EXCEPT !.disconnectedAt = time] ELSE e

\* session.disconnectedAt = new Date().toISOString()
Stamp(e, conn, time) ==
    IF Stamps(e, conn) THEN [e EXCEPT !.disconnectedAt = time] ELSE e

\* the ledger a pass writes back
Reconciled(led, live, conn, time) ==
    LET m == Merge(led, live)
    IN [i \in 1..Len(m) |-> Stamp(m[i], conn, time)]

\* this.sessions after the pass: an entry is stamped when the ledger's entry of
\* the same id was stamped and it has no disconnect time itself
LiveAfter(led, live, conn, time) ==
    LET m == Merge(led, live)
    IN [i \in 1..Len(live) |->
          IF /\ live[i].disconnectedAt = NoTime
             /\ \E j \in 1..Len(m) : m[j].id = live[i].id /\ Stamps(m[j], conn)
          THEN [live[i] EXCEPT !.disconnectedAt = time]
          ELSE live[i]]

\* sessionsFromBucket ? await sessionsFromBucket.json() : {}
LedgerRead == IF r2Sessions.present THEN r2Sessions.body ELSE <<>>

\* history: a connect, a disconnect or another pass's write disturbs the passes in flight
DisturbedReqs == [r \in 1..MaxReqs |-> [reqs[r] EXCEPT !.quiet = FALSE]]
DisturbedTasks == [k \in 1..MaxTasks |-> [tasks[k] EXCEPT !.quiet = FALSE]]

\* the merge, the stamping and r2.put(sessions.json) of one pass that read `led`
PassWrite(led, quiet) ==
    /\ r2Sessions' = Blob(Reconciled(led, sessions, connected, now))
    /\ sessions' = LiveAfter(led, sessions, connected, now)
    /\ twice' = [has |-> TRUE, quiet |-> quiet, pair |-> twice.has /\ twice.quiet /\ quiet]

---------------------------------------------------------------------------
(* schedulePersistToR2 (simple rooms) *)

\* a scheduler that writes the snapshot it took when the invocation was scheduled
PersistSnapshot_Captured(k) ==
    /\ tasks[k].pc = "snap"
    /\ tasks[k].mode = "simple"
    /\ r2Snapshot' = Blob(tasks[k].at)
    /\ tasks' = [tasks EXCEPT ![k].pc = "read", ![k].at = NoSnap,
                              ![k].late = (tasks[k].at.clock # room.clock)]
    /\ UNCHANGED <<now, pageVars, upVars, actorVars, callers, r2Study, r2Schema, r2Sessions, sessVars, thr>>

\* after `await this.getRoom()`: JSON.stringify(room.getCurrentSnapshot()) and its put
PersistSnapshot(k) ==
    /\ tasks[k].pc = "snap"
    /\ tasks[k].mode = "simple"
    /\ r2Snapshot' = Blob([clock |-> room.clock, documents |-> room.documents])
    /\ tasks' = [tasks EXCEPT ![k].pc = "read", ![k].at = NoSnap,
                              ![k].late = (tasks[k].at.clock # room.clock)]
    /\ UNCHANGED <<now, pageVars, upVars, actorVars, callers, r2Study, r2Schema, r2Sessions, sessVars, thr>>

\* r2.get(sessions.json) and its json()
PersistRead(k) ==
    /\ tasks[k].pc = "read"
    /\ tasks' = [tasks EXCEPT ![k].pc = "write", ![k].led = LedgerRead, ![k].quiet = TRUE,
                              ![k].late = FALSE]
    /\ UNCHANGED <<now, pageVars, upVars, actorVars, callers, blobVars, sessVars, thr>>

\* the merge, the stamping and the put of the ledger
PersistWrite(k) ==
    /\ tasks[k].pc = "write"
    /\ PassWrite(tasks[k].led, tasks[k].quiet)
    /\ tasks' = [DisturbedTasks EXCEPT ![k] = IdleTask]
    /\ reqs' = DisturbedReqs
    /\ UNCHANGED <<now, pageVars, upVars, actorVars, callers, r2Snapshot, r2Study, r2Schema, connected, answer, thr>>

---------------------------------------------------------------------------
(* studySchedulePersistToR2 (composite rooms) *)

\* the page-id group a record is filed under ("" is null)
GroupOf(rec) ==
    IF rec.typeName = "page" THEN rec.key
    ELSE IF rec.parentType # "" THEN rec.parentKey
    ELSE IF rec.typeName = "asset" THEN rec.key
    ELSE ""

\* if (id === null || id === "page") continue
Grouped(rec) == GroupOf(rec) # "" /\ GroupOf(rec) # "page"

RECURSIVE GroupIds(_, _)
\* Object.keys(pageDocuments): the groups in order of first appearance
GroupIds(docs, seen) ==
    IF docs = <<>> THEN <<>>
    ELSE IF Grouped(Head(docs)) /\ GroupOf(Head(docs)) \notin seen
         THEN <<GroupOf(Head(docs))>> \o GroupIds(Tail(docs), seen \cup {GroupOf(Head(docs))})
         ELSE GroupIds(Tail(docs), seen)

\* Object.entries(pageDocuments)
PageDocuments(docs) ==
    LET ids == GroupIds(docs, {})
    IN [i \in 1..Len(ids) |->
          [id |-> ids[i], body |-> SelectSeq(docs, LAMBDA d : Grouped(d) /\ GroupOf(d) = ids[i])]]

\* after `await this.getStudyRoom()`: group the current snapshot; nothing is
\* written when no record yields a group, else the schema blob is put
StudySnapshot(k) ==
    /\ tasks[k].pc = "snap"
    /\ tasks[k].mode = "study"
    /\ IF PageDocuments(room.documents) = <<>>
       THEN /\ tasks' = [tasks EXCEPT ![k] = IdleTask]
            /\ UNCHANGED r2Schema
       ELSE /\ tasks' = [tasks EXCEPT ![k].pc = "frag", ![k].frags = PageDocuments(room.documents),
                                      ![k].at = NoSnap, ![k].late = (tasks[k].at.clock # room.clock)]
            /\ r2Schema' = Blob("schema")
    /\ UNCHANGED <<now, pageVars, upVars, actorVars, callers, r2Snapshot, r2Study, r2Sessions, sessVars, thr>>

\* a scheduler that removes every fragment it does not write
StudyPutFragment_RemoveOthers(k) ==
    /\ tasks[k].pc = "frag"
    /\ r2Study' = [f \in FragIds |-> IF f = Head(tasks[k].frags).id
                                     THEN Blob(Head(tasks[k].frags).body) ELSE NoBlob]
    /\ tasks' = IF Len(tasks[k].frags) = 1 THEN [tasks EXCEPT ![k] = IdleTask]
                ELSE [tasks EXCEPT ![k].frags = Tail(@)]
    /\ UNCHANGED <<now, pageVars, upVars, actorVars, callers, r2Snapshot, r2Schema, r2Sessions, sessVars, thr>>

\* for await (const [id, documents] of ...) await r2.put(`study/${userId}/${id}.json`, ...)
StudyPutFragment(k) ==
    /\ tasks[k].pc = "frag"
    /\ r2Study' = [r2Study EXCEPT ![Head(tasks[k].frags).id] = Blob(Head(tasks[k].frags).body)]
    /\ tasks' = IF Len(tasks[k].frags) = 1 THEN [tasks EXCEPT ![k] = IdleTask]
                ELSE [tasks EXCEPT ![k].frags = Tail(@)]
    /\ UNCHANGED <<now, pageVars, upVars, actorVars, callers, r2Snapshot, r2Schema, r2Sessions, sessVars, thr>>

---------------------------------------------------------------------------
(* connect *)

\* name.match(/\d+/g)?.join("") ?? ""
Username(name) ==
    CASE name = "kim(12)" -> "12"
      [] name = "lee7a3" -> "73"
      [] OTHER -> ""

\* the tokens a request may carry: none, one that fails verification, or verified claims
ValidClaims ==
    { [valid |-> TRUE, room |-> SimpleKey, nodeId |-> StudyKey, sub |-> <<"u1", "x">>, name |-> "kim(12)"],
      [valid |-> TRUE, room |-> <<"r2">>, nodeId |-> <<"u1", "h2">>, sub |-> <<"u1", "x">>, name |-> "kim(12)"],
      [valid |-> TRUE, room |-> SimpleKey, nodeId |-> <<"u2", "h1">>, sub |-> <<>>, name |-> "lee7a3"] }
TokenInputs ==
    {[given |-> FALSE, tok |-> NoClaims], [given |-> TRUE, tok |-> NoClaims]}
    \cup {[given |-> TRUE, tok |-> c] : c \in ValidClaims}

\* the worker routes the requests of one room key to one actor: an actor is
\* addressed through the simple routes or through the hash routes of its key
RoutedSimple == roomId \in {NoRoom, SimpleKey}
RoutedStudy == roomId \in {NoRoom, StudyKey}

\* request.query.sessionId of a composite connect
StudySid == <<"q1", 0>>

HasFreeReq == \E r \in 1..MaxReqs : reqs[r].pc = "idle"
FreeReq == IF HasFreeReq
           THEN CHOOSE r \in 1..MaxReqs : reqs[r].pc = "idle" /\ \A j \in 1..(r - 1) : reqs[j].pc # "idle"
           ELSE 0

\* the session ids this.sessions and the persisted ledger hold
KnownIds == {sessions[i].id : i \in 1..Len(sessions)} \cup {LedgerRead[i].id : i \in 1..Len(LedgerRead)}

\* handleConnect up to `await this.getRoom()`: 0 when every check passes
ConnectChecks(in, key) ==
    IF ~in.given THEN 400
    ELSE IF ~in.tok.valid THEN 401
    ELSE IF in.tok.room # key THEN 401
    ELSE IF in.tok.sub = <<>> THEN 400
    ELSE IF in.tok.name = "" THEN 400
    ELSE 0

\* GET /connect/:roomId : the router binds the room key, then handleConnect
ConnectArrive(r, in) ==
    /\ RoutedSimple
    /\ r = FreeReq
    /\ Cardinality(KnownIds) < MaxSessions
    /\ BindSimple
    /\ IF ConnectChecks(in, roomId') = 0
       THEN /\ getRoom
            /\ reqs' = [reqs EXCEPT ![r] = [IdleReq EXCEPT !.kind = "connect", !.pc = "room",
                                                          !.given = in.given, !.tok = in.tok]]
            /\ UNCHANGED answer
       ELSE /\ answer' = Answer("connect", in, ConnectChecks(in, roomId'))
            /\ UNCHANGED <<roomPromise, loads, reqs>>
    /\ UNCHANGED <<now, pageVars, upVars, room, callers, blobVars, connected, sessions, twice, thrVars>>

\* this.sessions[sessionId] = {...}: an existing key keeps its place
PutSession(live, e) ==
    IF HasId(live, e.id)
    THEN [i \in 1..Len(live) |-> IF live[i].id = e.id THEN e ELSE live[i]]
    ELSE Append(live, e)

\* sub.split("/").shift() + "/" + new Date().toISOString()
SessionId(sub, time) == <<Head(sub), time>>

\* handleConnect after the room is there: mint the session id, record the
\* session, room.handleSocketConnect(...), answer 101
ConnectAttach(r) ==
    /\ reqs[r].kind = "connect"
    /\ reqs[r].pc = "room"
    /\ roomPromise.st = "resolved"
    /\ sessions' = PutSession(sessions, [id |-> SessionId(reqs[r].tok.sub, now),
                                         username |-> Username(reqs[r].tok.name),
                                         connectedAt |-> now, disconnectedAt |-> NoTime])
    /\ connected' = connected \cup {SessionId(reqs[r].tok.sub, now)}
    /\ reqs' = [DisturbedReqs EXCEPT ![r] = IdleReq]
    /\ answer' = Answer("connect", reqs[r], 101)
    /\ tasks' = DisturbedTasks
    /\ twice' = [twice EXCEPT !.quiet = FALSE]
    /\ UNCHANGED <<now, pageVars, upVars, actorVars, callers, blobVars, thr>>

\* handleStudyConnect up to `await this.getStudyRoom()`: 0 when every check passes
StudyConnectChecks(in, key, pp) ==
    IF ~in.given THEN 400
    ELSE IF pp = NoPages THEN 400
    ELSE IF ~in.tok.valid THEN 401
    ELSE IF in.tok.nodeId = <<>> THEN 401
    ELSE IF Head(in.tok.nodeId) # Head(key) THEN 401
    ELSE 0

\* GET /connect/:roomId?hash=... : the router binds room key and pages, then handleStudyConnect
StudyConnectArrive(r, in, pp) ==
    /\ RoutedStudy
    /\ r = FreeReq
    /\ BindStudy(pp)
    /\ IF StudyConnectChecks(in, roomId', pages') = 0
       THEN /\ getStudyRoom
            /\ reqs' = [reqs EXCEPT ![r] = [IdleReq EXCEPT !.kind = "studyConnect", !.pc = "room",
                                                          !.given = in.given, !.tok = in.tok]]
            /\ UNCHANGED answer
       ELSE /\ answer' = Answer("studyConnect", in, StudyConnectChecks(in, roomId', pages'))
            /\ UNCHANGED <<roomPromise, loads, reqs>>
    /\ UNCHANGED <<now, pageVars, upVars, room, callers, blobVars, connected, sessions, twice, thrVars>>

\* handleStudyConnect after the room is there: room.handleSocketConnect(...), answer 101
StudyConnectAttach(r) ==
    /\ reqs[r].kind = "studyConnect"
    /\ reqs[r].pc = "room"
    /\ roomPromise.st = "resolved"
    /\ connected' = connected \cup {StudySid}
    /\ reqs' = [DisturbedReqs EXCEPT ![r] = IdleReq]
    /\ answer' = Answer("studyConnect", reqs[r], 101)
    /\ tasks' = DisturbedTasks
    /\ twice' = [twice EXCEPT !.quiet = FALSE]
    /\ UNCHANGED <<now, pageVars, upVars, actorVars, callers, blobVars, sessions, thr>>

\* a client's socket closes: the engine no longer reports its session connected
SocketClose(id) ==
    /\ id \in connected
    /\ connected' = connected \ {id}
    /\ reqs' = DisturbedReqs
    /\ tasks' = DisturbedTasks
    /\ twice' = [twice EXCEPT !.quiet = FALSE]
    /\ UNCHANGED <<now, pageVars, upVars, actorVars, callers, blobVars, sessions, answer, thr>>

---------------------------------------------------------------------------
(* list-sessions *)

\* GET /rooms/:roomId/sessions : handleGetSessions up to `await this.getRoom()`
\* (the token must be present; it is not verified)
SessionsArrive(r, in) ==
    /\ RoutedSimple
    /\ r = FreeReq
    /\ BindSimple
    /\ IF in.given
       THEN /\ getRoom
            /\ reqs' = [reqs EXCEPT ![r] = [IdleReq EXCEPT !.kind = "sessions", !.pc = "room",
                                                          !.given = in.given, !.tok = in.tok]]
            /\ UNCHANGED answer
       ELSE /\ answer' = Answer("sessions", in, 400)
            /\ UNCHANGED <<roomPromise, loads, reqs>>
    /\ UNCHANGED <<now, pageVars, upVars, room, callers, blobVars, connected, sessions, twice, thrVars>>

\* the room is there: r2.get(sessions.json) and its json()
SessionsRead(r) ==
    /\ reqs[r].kind = "sessions"
    /\ reqs[r].pc = "room"
    /\ roomPromise.st = "resolved"
    /\ reqs' = [reqs EXCEPT ![r].pc = "write", ![r].led = LedgerRead, ![r].quiet = TRUE]
    /\ UNCHANGED <<now, pageVars, upVars, actorVars, callers, blobVars, connected, sessions, answer, twice, thrVars>>

\* the merge, the stamping, the put of the ledger and the 200 response
SessionsWrite(r) ==
    /\ reqs[r].kind = "sessions"
    /\ reqs[r].pc = "write"
    /\ PassWrite(reqs[r].led, reqs[r].quiet)
    /\ reqs' = [DisturbedReqs EXCEPT ![r] = IdleReq]
    /\ answer' = Answer("sessions", reqs[r], 200)
    /\ tasks' = DisturbedTasks
    /\ UNCHANGED <<now, pageVars, upVars, actorVars, callers, r2Snapshot, r2Study, r2Schema, connected, thr>>

---------------------------------------------------------------------------
(* query-pages, mutate-pages and delete-pages (simple rooms)                *)
(* An order key is modelled by its rank in string order: "a1" is 1.         *)

\* sortByIndex(a, b) of tldraw: compares the order keys
sortByIndex(a, b) == IF a.index < b.index THEN -1 ELSE IF a.index > b.index THEN 1 ELSE 0

RECURSIVE Insert_BeforeEqual(_, _)
\* an insertion that puts a record in front of the records of equal key
Insert_BeforeEqual(sorted, x) ==
    IF sorted = <<>> THEN <<x>>
    ELSE IF sortByIndex(x, Head(sorted)) <= 0 THEN <<x>> \o sorted
    ELSE <<Head(sorted)>> \o Insert_BeforeEqual(Tail(sorted), x)

RECURSIVE Insert(_, _)
\* Array.prototype.sort is stable: a record goes behind the records it does not sort before
Insert(sorted, x) ==
    IF sorted = <<>> THEN <<x>>
    ELSE IF sortByIndex(x, Head(sorted)) < 0 THEN <<x>> \o sorted
    ELSE <<Head(sorted)>> \o Insert(Tail(sorted), x)

RECURSIVE SortFrom(_, _)
SortFrom(sorted, rest) ==
    IF rest = <<>> THEN sorted ELSE SortFrom(Insert(sorted, Head(rest)), Tail(rest))

\* snapshot.documents.filter((document) => document.state.typeName === "page")
PagesOf(docs) == SelectSeq(docs, LAMBDA d : d.typeName = "page")

\* pages.sort((a, b) => sortByIndex(a.state, b.state))
Listing(docs) == SortFrom(<<>>, PagesOf(docs))

\* the order key of the last page of the sorted listing, "a1" when there is no page
LastIndex(docs) == IF Listing(docs) = <<>> THEN 1 ELSE Listing(docs)[Len(Listing(docs))].index

\* getIndicesAbove(below, n) of tldraw: n increasing keys above `below`
getIndicesAbove(below, n) == [i \in 1..n |-> below + i]

\* body.input.pages: a page has an id, may have an image and may give its size and type
PageInputs ==
    { [id |-> "p1", image |-> TRUE, dims |-> TRUE],
      [id |-> "p2", image |-> TRUE, dims |-> FALSE],
      [id |-> "p2", image |-> FALSE, dims |-> FALSE] }
Batches ==
    {b \in UNION {[1..n -> PageInputs] : n \in 1..MaxBatch} :
        \A i, j \in 1..Len(b) : i # j => b[i].id # b[j].id}
\* the body of a delete-pages request names pages by id
Named1(id) == [id |-> id, image |-> FALSE, dims |-> FALSE]
DeleteBatches == {<<Named1("p2")>>, <<Named1("p1"), Named1("p2")>>, <<Named1("p3"), Named1("p1")>>}

\* the tokens of these requests: attributes.nodeId names the user whose fragments are looked up
PageClaims ==
    { [valid |-> TRUE, room |-> SimpleKey, nodeId |-> <<"u1">>, sub |-> <<"u1", "x">>, name |-> "kim(12)"],
      [valid |-> TRUE, room |-> SimpleKey, nodeId |-> <<>>, sub |-> <<"u1", "x">>, name |-> "kim(12)"],
      [valid |-> TRUE, room |-> <<"r2">>, nodeId |-> <<"u1">>, sub |-> <<"u1", "x">>, name |-> "kim(12)"] }
PageTokens ==
    {[given |-> FALSE, tok |-> NoClaims], [given |-> TRUE, tok |-> NoClaims]}
    \cup {[given |-> TRUE, tok |-> c] : c \in PageClaims}

\* the checks of the three handlers up to `await this.getRoom()`: 0 when all pass
PagesChecks(in, key, needsNode) ==
    IF ~in.given THEN 400
    ELSE IF ~in.tok.valid THEN 401
    ELSE IF in.tok.room # key THEN 401
    ELSE IF needsNode /\ in.tok.nodeId = <<>> THEN 400
    ELSE 0

HasFreePreq == \E q \in 1..MaxOverlap : preqs[q].pc = "idle"
FreePreq == IF HasFreePreq
            THEN CHOOSE q \in 1..MaxOverlap : preqs[q].pc = "idle" /\ \A j \in 1..(q - 1) : preqs[j].pc # "idle"
            ELSE 0

\* a request of the three routes up to `await this.getRoom()`
PagesArrive(q, kind, in, b, needsNode) ==
    /\ RoutedSimple
    /\ q = FreePreq
    /\ BindSimple
    /\ IF PagesChecks(in, roomId', needsNode) = 0
       THEN /\ getRoom
            /\ preqs' = [preqs EXCEPT ![q] = [IdlePreq EXCEPT !.kind = kind, !.pc = "room",
                                                            !.nodeId = IF needsNode THEN in.tok.nodeId ELSE <<>>,
                                                            !.batch = b]]
            /\ UNCHANGED panswer
       ELSE /\ panswer' = [NoPanswer EXCEPT !.kind = kind, !.status = PagesChecks(in, roomId', needsNode)]
            /\ UNCHANGED <<roomPromise, loads, preqs>>
    /\ UNCHANGED <<now, room, callers, blobVars, sessVars, thrVars, upVars>>

\* room.updateStore(...): the engine commits the changes, if any, as one mutation
StoreCommit(docs) ==
    IF docs = room.documents THEN UNCHANGED <<room, thr, tasks>> ELSE DataChange(docs)

\* GET /rooms/:roomId/pages
GetArrive(q, in) == PagesArrive(q, "get", in, <<>>, FALSE)

\* handleGetPages after the room is there: filter, sort, 200
GetRespond(q) ==
    /\ preqs[q].kind = "get"
    /\ preqs[q].pc = "room"
    /\ roomPromise.st = "resolved"
    /\ preqs' = [preqs EXCEPT ![q] = IdlePreq]
    /\ panswer' = [NoPanswer EXCEPT !.kind = "get", !.status = 200, !.pages = Listing(room.documents)]
    /\ UNCHANGED <<now, actorVars, callers, blobVars, sessVars, thrVars, upVars>>

\* DELETE /rooms/:roomId/pages
DelArrive(q, in, b) == PagesArrive(q, "del", in, b, FALSE)

\* pageIds.includes(document.state.id.split(":")[1]) on a page record
Named(b, d) == d.typeName = "page" /\ \E i \in 1..Len(b) : b[i].id = d.key

\* a delete that removes every page record
Removed_AllPages(docs, b) == PagesOf(docs)

\* pageRecords: the page records of the snapshot that the request names
Removed(docs, b) == SelectSeq(docs, LAMBDA d : Named(b, d))

\* handleDeletePages after the room is there: one updateStore that deletes them, 200
DelCommit(q) ==
    /\ preqs[q].kind = "del"
    /\ preqs[q].pc = "room"
    /\ roomPromise.st = "resolved"
    /\ StoreCommit(SelectSeq(room.documents,
                             LAMBDA d : \A i \in 1..Len(Removed(room.documents, preqs[q].batch)) :
                                            Removed(room.documents, preqs[q].batch)[i] # d))
    /\ preqs' = [preqs EXCEPT ![q] = IdlePreq]
    /\ panswer' = [NoPanswer EXCEPT !.kind = "del", !.status = 200, !.batch = preqs[q].batch,
                                    !.pages = Removed(room.documents, preqs[q].batch)]
    /\ UNCHANGED <<now, roomId, stored, pages, roomPromise, loads, callers, blobVars, sessVars, upVars>>

\* PUT /rooms/:roomId/pages
PutArrive(q, in, b) == PagesArrive(q, "put", in, b, TRUE)

\* the outcome of one page's promise
Pending == [st |-> "pending", docs |-> <<>>, id |-> ""]

\* handlePutPages after the room is there: the batch's order keys are allocated above
\* the last page of the current snapshot, and every page's promise starts its r2.get
PutAllocate(q) ==
    /\ preqs[q].kind = "put"
    /\ preqs[q].pc = "room"
    /\ roomPromise.st = "resolved"
    /\ preqs' = [preqs EXCEPT ![q].pc = "pages",
                              ![q].keys = getIndicesAbove(LastIndex(room.documents), Len(preqs[q].batch)),
                              ![q].results = [i \in 1..Len(preqs[q].batch) |-> Pending]]
    /\ UNCHANGED <<now, actorVars, callers, blobVars, sessVars, thrVars, panswer, upVars>>

\* r2.get(`study/${nodeId}/${page.id}.json`): the fragments of this model are those of user u1
FragmentAt(nodeId, id) == IF nodeId = <<"u1">> /\ id \in FragIds THEN r2Study[id] ELSE NoBlob

\* documents.map(...): the fragment's page record takes the allocated key
Reindexed(body, index) ==
    [i \in 1..Len(body) |-> IF body[i].typeName = "page" THEN [body[i] EXCEPT !.index = index]
                                                           ELSE body[i]]

\* the three records made for an image page: page, asset, locked image shape
Synthesized(id, index) == <<PageRec(id, index), Rec("asset", id, 0, "", ""), ShapeRec(id, id)>>

\* what the promise of page pg settles to; `probed` is whether fetch and decoding of
\* the image succeed when the request gives no size: a page with neither fragment
\* nor image fulfils with undefined
PageOutcome(nodeId, pg, index, probed) ==
    IF FragmentAt(nodeId, pg.id).present
    THEN [st |-> "fulfilled", docs |-> Reindexed(FragmentAt(nodeId, pg.id).body, index), id |-> pg.id]
    ELSE IF pg.image
         THEN IF pg.dims \/ probed
              THEN [st |-> "fulfilled", docs |-> Synthesized(pg.id, index), id |-> pg.id]
              ELSE [st |-> "rejected", docs |-> <<>>, id |-> pg.id]
         ELSE [st |-> "fulfilled", docs |-> <<>>, id |-> pg.id]

\* the promise of page i of the batch settles
PutResolve(q, i, probed) ==
    /\ preqs[q].pc = "pages"
    /\ i \in 1..Len(preqs[q].batch)
    /\ preqs[q].results[i].st = "pending"
    /\ probed \/ (~FragmentAt(preqs[q].nodeId, preqs[q].batch[i].id).present
                  /\ preqs[q].batch[i].image /\ ~preqs[q].batch[i].dims)
    /\ preqs' = [preqs EXCEPT ![q].results[i] =
                    PageOutcome(preqs[q].nodeId, preqs[q].batch[i], preqs[q].keys[i], probed)]
    /\ UNCHANGED <<now, actorVars, callers, blobVars, sessVars, thrVars, panswer, upVars>>

RECURSIVE Collected_AllOrNothing(_)
\* a collection that keeps nothing when a page of the batch was rejected
Collected_AllOrNothing(results) ==
    IF \E i \in 1..Len(results) : results[i].st = "rejected" THEN <<>>
    ELSE IF results = <<>> THEN <<>>
    ELSE Head(results).docs \o Collected_AllOrNothing(Tail(results))

RECURSIVE Collected(_)
\* results.forEach: pageFromDocuments.push(...result.value) of the fulfilled promises
Collected(results) ==
    IF results = <<>> THEN <<>>
    ELSE (IF Head(results).st = "fulfilled" THEN Head(results).docs ELSE <<>>)
         \o Collected(Tail(results))

\* results.forEach: errors.push(result.reason) of the rejected promises, by page id
Errors(results) ==
    LET rejected == SelectSeq(results, LAMBDA r : r.st = "rejected")
    IN [i \in 1..Len(rejected) |-> rejected[i].id]

RECURSIVE PutAll(_, _)
\* for (const document of pageFromDocuments) store.put(document.state)
PutAll(docs, recs) ==
    IF recs = <<>> THEN docs ELSE PutAll(PutDoc(docs, Head(recs)), Tail(recs))

\* await Promise.allSettled(pagePromises), the one updateStore and the 200 response
PutCommit(q) ==
    /\ preqs[q].pc = "pages"
    /\ \A i \in 1..Len(preqs[q].results) : preqs[q].results[i].st # "pending"
    /\ StoreCommit(PutAll(room.documents, Collected(preqs[q].results)))
    /\ preqs' = [preqs EXCEPT ![q] = IdlePreq]
    /\ panswer' = [kind |-> "put", status |-> 200, batch |-> preqs[q].batch,
                   pages |-> PagesOf(Collected(preqs[q].results)),
                   errors |-> Errors(preqs[q].results)]
    /\ UNCHANGED <<now, roomId, stored, pages, roomPromise, loads, callers, blobVars, sessVars, upVars>>

\* snapshots and fragments a room may have when the actor starts
PageSnapshots ==
    { NoBlob,
      Blob([clock |-> 0, documents |-> <<PageRec("p3", 2), ShapeRec("s3", "p3"), PageRec("p2", 2)>>]),
      Blob([clock |-> 0, documents |-> <<PageRec("p2", 3), PageRec("p1", 1)>>]) }
PageFragments ==
    { [f \in FragIds |-> NoBlob],
      [f \in FragIds |-> IF f = "p1" THEN Blob(<<PageRec("p1", 1), ShapeRec("s1", "p1")>>) ELSE NoBlob] }

InitPages ==
    /\ InitActor
    /\ r2Snapshot \in PageSnapshots
    /\ r2Study \in PageFragments
    /\ r2Schema = NoBlob

NextPages ==
    \/ \E q \in 1..MaxPuts, in \in PageTokens : GetArrive(q, in)
    \/ \E q \in 1..MaxPuts : GetRespond(q)
    \/ \E q \in 1..MaxPuts, in \in PageTokens, b \in DeleteBatches : DelArrive(q, in, b)
    \/ \E q \in 1..MaxPuts : room.clock < MaxEdits /\ DelCommit(q)
    \/ \E q \in 1..MaxPuts, in \in PageTokens, b \in Batches : PutArrive(q, in, b)
    \/ \E q \in 1..MaxPuts : PutAllocate(q)
    \/ \E q \in 1..MaxPuts, i \in 1..MaxBatch, probed \in BOOLEAN : PutResolve(q, i, probed)
    \/ \E q \in 1..MaxPuts : room.clock < MaxEdits /\ PutCommit(q)
    \/ LoadResolve

SpecPages == InitPages /\ [][NextPages]_vars

---------------------------------------------------------------------------
(* The asset subsystem: handleAssetUpload, handleChunkUpload,               *)
(* checkAllChunksUploaded, combineChunks                                    *)
(* An object name is the pair of the upload id and a part: the object       *)
(* upload/<id> itself (Base) or its chunk upload/<id>.chunk<i> (part i).    *)
(* A body is the sequence of the pieces its stream is read in.              *)

Base == -1

\* env.TLDRAW_BUCKET.head / get / put / delete
R2Head(uid, part) == \E o \in r2Upload : o.uid = uid /\ o.part = part
R2Get(uid, part) == CHOOSE o \in r2Upload : o.uid = uid /\ o.part = part
R2Put(uid, part, body) ==
    {o \in r2Upload : ~(o.uid = uid /\ o.part = part)} \cup {[uid |-> uid, part |-> part, body |-> body]}
R2Delete(uid, part) == {o \in r2Upload : ~(o.uid = uid /\ o.part = part)}

\* the bodies a client sends
Bodies == UNION {[1..n -> {"a", "b"}] : n \in 0..MaxPieces}

\* a client starts an upload: one request without chunk headers, or T requests
\* that carry X-Chunk-Index i and X-Total-Chunks T
UploadStart(T, chunked, ctype, payloads) ==
    /\ upload = NoUpload
    /\ chunked \/ T = 1
    /\ upload' = [T |-> T, chunked |-> chunked, ctype |-> ctype, payloads |-> payloads]
    /\ UNCHANGED <<now, actorVars, callers, blobVars, sessVars, thrVars, pageVars, dlVars, ureqs, minted, r2Upload>>

\* the declared content types: "image/" and "video/" stand for a type with that
\* prefix, "text/" for any other type, "" for a request without the header
ContentTypes == {"image/", "video/", "text/", ""}

\* !(contentType.startsWith('image/') || contentType.startsWith('video/')) is the 400
AllowedType(ctype) == ctype \in {"image/", "video/"}

\* a handler that names the object after the upload, not after the request
UpArrive_UploadId(i) ==
    /\ i < upload.T
    /\ ureqs[i].pc = "idle"
    /\ minted' = minted + 1
    /\ ureqs' = [ureqs EXCEPT ![i] =
                    IF ~AllowedType(upload.ctype)
                    THEN [IdleUreq EXCEPT !.pc = "done", !.uid = 1, !.status = 400,
                                          !.dup = ureqs[i].dup]
                    ELSE [IdleUreq EXCEPT !.pc = "head", !.uid = 1, !.dup = ureqs[i].dup]]
    /\ UNCHANGED <<now, actorVars, callers, blobVars, sessVars, thrVars, pageVars, dlVars, upload, r2Upload>>

\* an upload handler that stores whatever type is declared
UpArrive_NoTypeCheck(i) ==
    /\ i < upload.T
    /\ ureqs[i].pc = "idle"
    /\ minted' = minted + 1
    /\ ureqs' = [ureqs EXCEPT ![i] =
                    [IdleUreq EXCEPT !.pc = "head", !.uid = minted + 1, !.dup = ureqs[i].dup]]
    /\ UNCHANGED <<now, actorVars, callers, blobVars, sessVars, thrVars, pageVars, dlVars, upload, r2Upload>>

\* POST of request i of the upload: uploadId = new UUID().toString(), the content
\* type check, then head() of the name the body will be stored under
UpArrive(i) ==
    /\ i < upload.T
    /\ ureqs[i].pc = "idle"
    /\ minted' = minted + 1
    /\ ureqs' = [ureqs EXCEPT ![i] =
                    IF ~AllowedType(upload.ctype)
                    THEN [IdleUreq EXCEPT !.pc = "done", !.uid = minted + 1, !.status = 400,
                                          !.dup = ureqs[i].dup]
                    ELSE [IdleUreq EXCEPT !.pc = "head", !.uid = minted + 1, !.dup = ureqs[i].dup]]
    /\ UNCHANGED <<now, actorVars, callers, blobVars, sessVars, thrVars, pageVars, dlVars, upload, r2Upload>>

\* the part request i stores its body under
PartOf(i) == IF upload.chunked THEN i ELSE Base

\* if (await env.TLDRAW_BUCKET.head(name)) return error(409, ...)
UpHead(i) ==
    /\ ureqs[i].pc = "head"
    /\ ureqs' = [ureqs EXCEPT ![i] = IF R2Head(ureqs[i].uid, PartOf(i))
                                    THEN [@ EXCEPT !.pc = "done", !.status = 409]
                                    ELSE [@ EXCEPT !.pc = "put"]]
    /\ UNCHANGED <<now, actorVars, callers, blobVars, sessVars, thrVars, pageVars, dlVars, upload, minted, r2Upload>>

\* await env.TLDRAW_BUCKET.put(name, request.body, ...): the whole upload answers,
\* a chunk upload goes on to checkAllChunksUploaded
UpPut(i) ==
    /\ ureqs[i].pc = "put"
    /\ r2Upload' = R2Put(ureqs[i].uid, PartOf(i), upload.payloads[i + 1])
    /\ ureqs' = [ureqs EXCEPT ![i] = IF upload.chunked
                                    THEN [@ EXCEPT !.pc = "check", !.j = 0]
                                    ELSE [@ EXCEPT !.pc = "done", !.status = 200]]
    /\ UNCHANGED <<now, actorVars, callers, blobVars, sessVars, thrVars, pageVars, dlVars, upload, minted>>

\* a completeness check that looks at the first chunk only
UpCheck_FirstOnly(i) ==
    /\ ureqs[i].pc = "check"
    /\ ureqs' = [ureqs EXCEPT ![i] =
                    IF upload.T = 0 \/ R2Head(ureqs[i].uid, 0)
                    THEN [@ EXCEPT !.pc = "get", !.j = 0, !.chunks = <<>>]
                    ELSE [@ EXCEPT !.pc = "done", !.status = 200]]
    /\ UNCHANGED <<now, actorVars, callers, blobVars, sessVars, thrVars, pageVars, dlVars, upload, minted, r2Upload>>

\* checkAllChunksUploaded: one turn of the loop `for (i = 0; i < totalChunks; i++)`;
\* a missing chunk returns false and the request ends with its ok response, the
\* loop running out returns true and starts combineChunks
UpCheck(i) ==
    /\ ureqs[i].pc = "check"
    /\ ureqs' = [ureqs EXCEPT ![i] =
                    IF ureqs[i].j >= upload.T
                    THEN [@ EXCEPT !.pc = "get", !.j = 0, !.chunks = <<>>]
                    ELSE IF ~R2Head(ureqs[i].uid, ureqs[i].j)
                         THEN [@ EXCEPT !.pc = "done", !.status = 200]
                         ELSE [@ EXCEPT !.j = @ + 1]]
    /\ UNCHANGED <<now, actorVars, callers, blobVars, sessVars, thrVars, pageVars, dlVars, upload, minted, r2Upload>>

\* a reassembly that goes on with the chunks it found
UpGet_Partial(i) ==
    /\ ureqs[i].pc = "get"
    /\ LET got == IF R2Head(ureqs[i].uid, ureqs[i].j)
                  THEN Append(ureqs[i].chunks, R2Get(ureqs[i].uid, ureqs[i].j).body)
                  ELSE ureqs[i].chunks
       IN ureqs' = [ureqs EXCEPT ![i] =
                       IF ureqs[i].j + 1 < upload.T
                       THEN [@ EXCEPT !.j = @ + 1, !.chunks = got]
                       ELSE [@ EXCEPT !.pc = "stream", !.chunks = got]]
    /\ UNCHANGED <<now, actorVars, callers, blobVars, sessVars, thrVars, pageVars, dlVars, upload, minted, r2Upload>>

\* combineChunks: one get() of the first loop; after the last one,
\* if (chunks.length !== totalChunks) throw
UpGet(i) ==
    /\ ureqs[i].pc = "get"
    /\ LET got == IF R2Head(ureqs[i].uid, ureqs[i].j)
                  THEN Append(ureqs[i].chunks, R2Get(ureqs[i].uid, ureqs[i].j).body)
                  ELSE ureqs[i].chunks
       IN ureqs' = [ureqs EXCEPT ![i] =
                       IF ureqs[i].j + 1 < upload.T
                       THEN [@ EXCEPT !.j = @ + 1, !.chunks = got]
                       ELSE IF Len(got) # upload.T
                            THEN [@ EXCEPT !.pc = "done", !.status = 500, !.chunks = <<>>]
                            ELSE [@ EXCEPT !.pc = "stream", !.chunks = got]]
    /\ UNCHANGED <<now, actorVars, callers, blobVars, sessVars, thrVars, pageVars, dlVars, upload, minted, r2Upload>>

RECURSIVE pump(_, _, _, _, _)
\* pump() of the combined stream: every call asks chunks[chunkIndex].body for a new
\* reader, and getReader() throws on a stream that already has one; the throw is
\* inside the read's callback, so the combined stream neither closes nor errors
pump(chunks, chunkIndex, locked, pos, out) ==
    IF chunkIndex > Len(chunks) THEN [closed |-> TRUE, bytes |-> out]
    ELSE IF chunkIndex \in locked THEN [closed |-> FALSE, bytes |-> out]
    ELSE IF pos = Len(chunks[chunkIndex])
         THEN pump(chunks, chunkIndex + 1, locked \cup {chunkIndex}, 0, out)
         ELSE pump(chunks, chunkIndex, locked \cup {chunkIndex}, pos + 1,
                   Append(out, chunks[chunkIndex][pos + 1]))

combinedStream(chunks) == pump(chunks, 1, {}, 0, <<>>)

\* a reassembly that deletes the chunk objects before it writes the base object
UpStream_DeleteFirst(i) ==
    /\ ureqs[i].pc = "stream"
    /\ r2Upload' = {o \in r2Upload : ~(o.uid = ureqs[i].uid /\ o.part # Base)}
    /\ ureqs' = [ureqs EXCEPT ![i].pc = "waiting"]
    /\ UNCHANGED <<now, actorVars, callers, blobVars, sessVars, thrVars, pageVars, dlVars, upload, minted>>

\* await env.TLDRAW_BUCKET.put(baseObjectName, combinedStream, ...): the put ends
\* when the stream closes; a stream that never closes leaves the request waiting
UpStream(i) ==
    /\ ureqs[i].pc = "stream"
    /\ IF combinedStream(ureqs[i].chunks).closed
       THEN /\ r2Upload' = R2Put(ureqs[i].uid, Base, combinedStream(ureqs[i].chunks).bytes)
            /\ ureqs' = [ureqs EXCEPT ![i].pc = "delete", ![i].j = 0, ![i].chunks = <<>>]
       ELSE /\ ureqs' = [ureqs EXCEPT ![i].pc = "waiting"]
            /\ UNCHANGED r2Upload
    /\ UNCHANGED <<now, actorVars, callers, blobVars, sessVars, thrVars, pageVars, dlVars, upload, minted>>

\* the loop that deletes the chunk objects, then the ok response
UpDelete(i) ==
    /\ ureqs[i].pc = "delete"
    /\ r2Upload' = R2Delete(ureqs[i].uid, ureqs[i].j)
    /\ ureqs' = [ureqs EXCEPT ![i] = IF ureqs[i].j + 1 < upload.T
                                    THEN [@ EXCEPT !.j = @ + 1]
                                    ELSE [@ EXCEPT !.pc = "done", !.status = 200]]
    /\ UNCHANGED <<now, actorVars, callers, blobVars, sessVars, thrVars, pageVars, dlVars, upload, minted>>

\* the client sends chunk request i again (same body, same X-Chunk-Index and
\* X-Total-Chunks) after it was accepted, while the chunk object it stored exists
UpResend(i) ==
    /\ upload.chunked
    /\ ureqs[i].pc = "done"
    /\ ureqs[i].status = 200
    /\ ureqs[i].dup = 0
    /\ R2Head(ureqs[i].uid, PartOf(i))
    /\ ureqs' = [ureqs EXCEPT ![i] = [IdleUreq EXCEPT !.dup = ureqs[i].uid]]
    /\ UNCHANGED <<now, actorVars, callers, blobVars, sessVars, thrVars, pageVars, dlVars, upload, minted, r2Upload>>

NextUpload ==
    \/ \E T \in 1..MaxChunks, chunked \in BOOLEAN, ctype \in ContentTypes :
          \E payloads \in [1..T -> Bodies] : UploadStart(T, chunked, ctype, payloads)
    \/ \E i \in 0..(MaxChunks - 1) : UpArrive(i)
    \/ \E i \in 0..(MaxChunks - 1) : UpHead(i)
    \/ \E i \in 0..(MaxChunks - 1) : UpPut(i)
    \/ \E i \in 0..(MaxChunks - 1) : UpCheck(i)
    \/ \E i \in 0..(MaxChunks - 1) : UpGet(i)
    \/ \E i \in 0..(MaxChunks - 1) : UpStream(i)
    \/ \E i \in 0..(MaxChunks - 1) : UpDelete(i)
    \/ \E i \in 0..(MaxChunks - 1) : UpResend(i)

---------------------------------------------------------------------------
(* download *)

\* a member of an R2Range that is not there
Undefined == -1

\* the Range headers that name bytes of an object of `size` bytes
Ranges(size) ==
    {NoRange}
    \cup {[form |-> "span", o |-> o, e |-> e] : o \in 0..(size - 1), e \in 0..(size - 1)}
    \cup {[form |-> "from", o |-> o, e |-> 0] : o \in 0..(size - 1)}
    \cup {[form |-> "suffix", o |-> n, e |-> 0] : n \in 1..size}

SatisfiableRanges(size) == {r \in Ranges(size) : r.form = "span" => r.o <= r.e}

\* the first and last byte position the bucket (or the cache) serves for a Range header
Served(range, size) ==
    CASE range.form = "span" -> [first |-> range.o, last |-> Min(range.e, size - 1)]
      [] range.form = "from" -> [first |-> range.o, last |-> size - 1]
      [] range.form = "suffix" -> [first |-> IF range.o > size THEN 0 ELSE size - range.o,
                                   last |-> size - 1]
      [] OTHER -> [first |-> 0, last |-> size - 1]

\* object.range of the R2ObjectBody that get() returns: the range served or the
\* range asked for, in one of the shapes of R2Range ({offset, length?}, {suffix}),
\* or no range member at all
R2Ranges(range, size) ==
    LET sv == Served(range, size)
        offlen == [has |-> TRUE, offset |-> sv.first, length |-> sv.last - sv.first + 1,
                   suffix |-> Undefined]
    IN CASE range.form = "span" ->
              {offlen, [has |-> TRUE, offset |-> range.o, length |-> range.e - range.o + 1,
                        suffix |-> Undefined]}
         [] range.form = "from" ->
              {offlen, [has |-> TRUE, offset |-> range.o, length |-> Undefined, suffix |-> Undefined]}
         [] range.form = "suffix" ->
              {offlen, [has |-> TRUE, offset |-> Undefined, length |-> Undefined, suffix |-> range.o]}
         [] OTHER ->
              {offlen, [has |-> FALSE, offset |-> Undefined, length |-> Undefined, suffix |-> Undefined]}

\* a content-range whose end is one past the last byte
contentRange_EndExclusive(range, size) ==
    IF ~range.has THEN NoContentRange
    ELSE IF range.suffix # Undefined
         THEN <<size - range.suffix, size, size>>
         ELSE LET start == IF range.offset = Undefined THEN 0 ELSE range.offset
                  end == IF range.length # Undefined /\ range.length # 0
                         THEN start + range.length ELSE size
              IN IF start # 0 \/ end # size THEN <<start, end, size>> ELSE NoContentRange

\* let contentRange; if (object.range) { ... }: <<start, end, size>> stands for
\* `bytes ${start}-${end}/${size}`
contentRange(range, size) ==
    IF ~range.has THEN NoContentRange
    ELSE IF range.suffix # Undefined
         THEN <<size - range.suffix, size - 1, size>>
         ELSE LET start == IF range.offset = Undefined THEN 0 ELSE range.offset
                  end == IF range.length # Undefined /\ range.length # 0
                         THEN start + range.length - 1 ELSE size - 1
              IN IF start # 0 \/ end # size - 1 THEN <<start, end, size>> ELSE NoContentRange

\* const status = body ? (contentRange ? 206 : 200) : 304
status(body, cr) == IF body THEN (IF cr # NoContentRange THEN 206 ELSE 200) ELSE 304

Cached(uid) == \E c \in cache : c.uid = uid
SizeOf(uid) == Len(R2Get(uid, Base).body)

\* caches.default.match(cacheKey) on a stored response: the edge cache answers
\* conditional headers the response fails with 304, a Range header with the 206
\* slice, and returns the stored response otherwise
CacheMatch(n, uid, range, cond) ==
    LET c == CHOOSE c \in cache : c.uid = uid
        sv == Served(range, c.size)
    IN [n |-> n, from |-> "cache", uid |-> uid, range |-> range, cond |-> cond, size |-> c.size,
        status |-> IF cond = "fail" THEN 304 ELSE IF range.form # "none" THEN 206 ELSE c.status,
        contentRange |-> IF cond # "fail" /\ range.form # "none"
                         THEN <<sv.first, sv.last, c.size>> ELSE NoContentRange]

\* a handler that goes to the bucket without looking into the cache
DlArrive_NoCache(uid, range, cond) ==
    /\ dreq.pc = "idle"
    /\ danswer.n < MaxDownloads
    /\ dreq' = [pc |-> "get", n |-> danswer.n + 1, uid |-> uid, range |-> range, cond |-> cond]
    /\ UNCHANGED <<now, actorVars, callers, blobVars, sessVars, thrVars, pageVars, upload, ureqs,
                   minted, r2Upload, cache, puts, danswer>>

\* GET of an upload: a cached response for the request is returned as it is,
\* else the handler goes on to the bucket
DlArrive(uid, range, cond) ==
    /\ dreq.pc = "idle"
    /\ danswer.n < MaxDownloads
    /\ IF Cached(uid)
       THEN /\ danswer' = CacheMatch(danswer.n + 1, uid, range, cond)
            /\ UNCHANGED dreq
       ELSE /\ dreq' = [pc |-> "get", n |-> danswer.n + 1, uid |-> uid, range |-> range, cond |-> cond]
            /\ UNCHANGED danswer
    /\ UNCHANGED <<now, actorVars, callers, blobVars, sessVars, thrVars, pageVars, upload, ureqs,
                   minted, r2Upload, cache, puts>>

\* a handler that hands every response to the cache
DlGet_CacheAll(objRange) ==
    /\ dreq.pc = "get"
    /\ LET size == IF R2Head(dreq.uid, Base) THEN SizeOf(dreq.uid) ELSE 0
           cr == IF R2Head(dreq.uid, Base) THEN contentRange(objRange, size) ELSE NoContentRange
           st == IF R2Head(dreq.uid, Base) THEN status(dreq.cond # "fail", cr) ELSE 404
       IN /\ danswer' = [n |-> dreq.n, from |-> "bucket", uid |-> dreq.uid, range |-> dreq.range,
                         cond |-> dreq.cond, size |-> size, status |-> st, contentRange |-> cr]
          /\ puts' = puts \cup {[uid |-> dreq.uid, status |-> st, size |-> size]}
    /\ dreq' = IdleDreq
    /\ UNCHANGED <<now, actorVars, callers, blobVars, sessVars, thrVars, pageVars, upload, ureqs,
                   minted, r2Upload, cache>>

\* env.TLDRAW_BUCKET.get(objectName, {range, onlyIf}) and the response: 404 without
\* an object; the object comes without a body when onlyIf fails; a 200 response is
\* teed and its copy handed to ctx.waitUntil(caches.default.put(...))
DlGet(objRange) ==
    /\ dreq.pc = "get"
    /\ IF ~R2Head(dreq.uid, Base)
       THEN /\ danswer' = [n |-> dreq.n, from |-> "bucket", uid |-> dreq.uid, range |-> dreq.range,
                           cond |-> dreq.cond, size |-> 0, status |-> 404,
                           contentRange |-> NoContentRange]
            /\ UNCHANGED puts
       ELSE /\ objRange \in R2Ranges(dreq.range, SizeOf(dreq.uid))
            /\ LET size == SizeOf(dreq.uid)
                   cr == contentRange(objRange, size)
                   st == status(dreq.cond # "fail", cr)
               IN /\ danswer' = [n |-> dreq.n, from |-> "bucket", uid |-> dreq.uid,
                                 range |-> dreq.range, cond |-> dreq.cond, size |-> size,
                                 status |-> st, contentRange |-> cr]
                  /\ puts' = IF st = 200
                             THEN puts \cup {[uid |-> dreq.uid, status |-> st, size |-> size]}
                             ELSE puts
    /\ dreq' = IdleDreq
    /\ UNCHANGED <<now, actorVars, callers, blobVars, sessVars, thrVars, pageVars, upload, ureqs,
                   minted, r2Upload, cache>>

\* a cache write handed to waitUntil completes
CachePut(e) ==
    /\ e \in puts
    /\ cache' = {c \in cache : c.uid # e.uid} \cup {e}
    /\ puts' = puts \ {e}
    /\ UNCHANGED <<now, actorVars, callers, blobVars, sessVars, thrVars, pageVars, upload, ureqs,
                   minted, r2Upload, dreq, danswer>>

\* every shape an R2Range takes in the model
RangeShapes ==
    UNION {UNION {R2Ranges(r, size) : r \in SatisfiableRanges(size)} : size \in 0..MaxSize}

\* the bucket holds what two whole uploads left: for each, no object or one of
\* 0..MaxSize bytes
InitDownload ==
    /\ now = 0
    /\ roomId = NoRoom
    /\ stored = NoRoom
    /\ pages = NoPages
    /\ roomPromise = NullPromise
    /\ loads = 0
    /\ room = NoRoomObj
    /\ callers = [c \in 1..MaxCallers |-> IdleCaller]
    /\ connected = {}
    /\ sessions = <<>>
    /\ reqs = [r \in 1..MaxReqs |-> IdleReq]
    /\ answer = NoAnswer
    /\ thr = ThrInit
    /\ tasks = [k \in 1..MaxTasks |-> IdleTask]
    /\ twice = NoTwice
    /\ preqs = [q \in 1..MaxOverlap |-> IdlePreq]
    /\ panswer = NoPanswer
    /\ r2Sessions = NoBlob
    /\ r2Snapshot = NoBlob
    /\ r2Study = [f \in FragIds |-> NoBlob]
    /\ r2Schema = NoBlob
    /\ upload = NoUpload
    /\ ureqs = [i \in 0..(MaxChunks - 1) |-> IdleUreq]
    /\ minted = 2
    /\ \E s1 \in {-1} \cup (0..MaxSize), s2 \in {-1} \cup (0..MaxSize) :
          r2Upload = {[uid |-> u, part |-> Base, body |-> [k \in 1..(IF u = 1 THEN s1 ELSE s2) |-> "a"]] :
                         u \in {x \in 1..2 : (IF x = 1 THEN s1 ELSE s2) >= 0}}
    /\ cache = {}
    /\ puts = {}
    /\ dreq = IdleDreq
    /\ danswer = NoDanswer

NextDownload ==
    \/ \E uid \in 1..2 :
          \E range \in SatisfiableRanges(IF R2Head(uid, Base) THEN SizeOf(uid) ELSE MaxSize),
             cond \in {"none", "pass", "fail"} : DlArrive(uid, range, cond)
    \/ \E objRange \in RangeShapes : DlGet(objRange)
    \/ \E e \in puts : CachePut(e)

SpecDownload == InitDownload /\ [][NextDownload]_vars

InitRoom ==
    /\ InitActor
    /\ r2Snapshot = NoBlob
    /\ r2Study = [f \in FragIds |-> NoBlob]
    /\ r2Schema = NoBlob

\* a request of a simple route / of a hash route reaches the room of its actor
TouchSimple(c) == RoutedSimple /\ CallGetRoom(c)
TouchStudy(c, pp) == RoutedStudy /\ CallGetStudyRoom(c, pp)

\* the persistence scheduler of a simple or a composite room
NextPersist ==
    \/ \E c \in 1..MaxCallers : TouchSimple(c)
    \/ \E c \in 1..MaxCallers, pp \in PagesParams : TouchStudy(c, pp)
    \/ \E c \in 1..MaxCallers : CallerResume(c)
    \/ \E c \in 1..MaxCallers : CallerDone(c)
    \/ LoadResolve
    \/ \E rec \in MutRecs, del \in BOOLEAN : Mutate(rec, del)
    \/ TimerExpired
    \/ Tick
    \/ \E k \in 1..MaxTasks : PersistSnapshot(k)
    \/ \E k \in 1..MaxTasks : PersistRead(k)
    \/ \E k \in 1..MaxTasks : PersistWrite(k)
    \/ \E k \in 1..MaxTasks : StudySnapshot(k)
    \/ \E k \in 1..MaxTasks : StudyPutFragment(k)
    \/ Restart

SpecPersist == InitRoom /\ [][NextPersist]_vars

\* connect in both modes
NextConnect ==
    \/ \E r \in 1..MaxReqs, in \in TokenInputs : ConnectArrive(r, in)
    \/ \E r \in 1..MaxReqs : ConnectAttach(r)
    \/ \E r \in 1..MaxReqs, in \in TokenInputs, pp \in PagesParams : StudyConnectArrive(r, in, pp)
    \/ \E r \in 1..MaxReqs : StudyConnectAttach(r)
    \/ \E id \in connected : SocketClose(id)
    \/ LoadResolve
    \/ Tick
    \/ Restart

SpecConnect == InitRoom /\ [][NextConnect]_vars

\* the tokens of the ledger's runs: none, or the one that names this room
SessInputs == {in \in TokenInputs : ~in.given \/ (in.tok.valid /\ in.tok.room = SimpleKey /\ in.tok.sub # <<>>)}

\* the session ledger of a simple room: connects, disconnects, list-sessions
\* passes and the passes of the persistence scheduler
NextSess ==
    \/ \E r \in 1..MaxReqs, in \in SessInputs : ConnectArrive(r, in)
    \/ \E r \in 1..MaxReqs : ConnectAttach(r)
    \/ \E id \in connected : SocketClose(id)
    \/ \E r \in 1..MaxReqs, in \in SessInputs : SessionsArrive(r, in)
    \/ \E r \in 1..MaxReqs : SessionsRead(r)
    \/ \E r \in 1..MaxReqs : SessionsWrite(r)
    \/ LoadResolve
    \/ \E del \in BOOLEAN : room.clock < MaxEdits /\ Mutate(PageRec("p1", 1), del)
    \/ TimerExpired
    \/ Tick
    \/ \E k \in 1..MaxTasks : PersistSnapshot(k)
    \/ \E k \in 1..MaxTasks : PersistRead(k)
    \/ \E k \in 1..MaxTasks : PersistWrite(k)
    \/ Restart

SpecSess == InitRoom /\ [][NextSess]_vars

\* connect and list-sessions requests of a simple room with every kind of token
NextAuth ==
    \/ \E r \in 1..MaxReqs, in \in TokenInputs : ConnectArrive(r, in)
    \/ \E r \in 1..MaxReqs : ConnectAttach(r)
    \/ \E id \in connected : SocketClose(id)
    \/ \E r \in 1..MaxReqs, in \in TokenInputs : SessionsArrive(r, in)
    \/ \E r \in 1..MaxReqs : SessionsRead(r)
    \/ \E r \in 1..MaxReqs : SessionsWrite(r)
    \/ LoadResolve
    \/ Tick
    \/ Restart

SpecAuth == InitRoom /\ [][NextAuth]_vars

\* the uploads of one client against an empty bucket
SpecUpload == InitRoom /\ [][NextUpload]_vars

\* the chunk objects a bucket may hold under one upload name
ChunkStores ==
    {{[uid |-> 1, part |-> k, body |-> st[k][1]] : k \in {x \in 0..(MaxChunks - 1) : st[x] # <<>>}} :
        st \in [0..(MaxChunks - 1) -> {<<>>} \cup {<<b>> : b \in Bodies}]}

\* checkAllChunksUploaded(env, baseObjectName, totalChunks) called by chunk request i,
\* for every total and every set of chunk objects under that base name
InitCheck ==
    /\ now = 0
    /\ roomId = NoRoom
    /\ stored = NoRoom
    /\ pages = NoPages
    /\ roomPromise = NullPromise
    /\ loads = 0
    /\ room = NoRoomObj
    /\ callers = [c \in 1..MaxCallers |-> IdleCaller]
    /\ connected = {}
    /\ sessions = <<>>
    /\ reqs = [r \in 1..MaxReqs |-> IdleReq]
    /\ answer = NoAnswer
    /\ thr = ThrInit
    /\ tasks = [k \in 1..MaxTasks |-> IdleTask]
    /\ twice = NoTwice
    /\ preqs = [q \in 1..MaxOverlap |-> IdlePreq]
    /\ panswer = NoPanswer
    /\ r2Sessions = NoBlob
    /\ r2Snapshot = NoBlob
    /\ r2Study = [f \in FragIds |-> NoBlob]
    /\ r2Schema = NoBlob
    /\ minted = 1
    /\ cache = {}
    /\ puts = {}
    /\ dreq = IdleDreq
    /\ danswer = NoDanswer
    /\ r2Upload \in ChunkStores
    /\ \E T \in 0..MaxChunks :
          upload = [T |-> T, chunked |-> TRUE, ctype |-> "image/", payloads |-> [k \in 1..T |-> <<"a">>]]
    /\ \E i \in 0..(MaxChunks - 1) :
          ureqs = [k \in 0..(MaxChunks - 1) |->
                     IF k = i THEN [IdleUreq EXCEPT !.pc = "check", !.uid = 1] ELSE IdleUreq]

NextCheck == \E i \in 0..(MaxChunks - 1) : UpCheck(i)

SpecCheck == InitCheck /\ [][NextCheck]_vars

---------------------------------------------------------------------------
\* no mutation for one throttle interval, every timer has fired and every
\* invocation of the persistence function has issued its snapshot writes
Quiescent ==
    /\ room.loaded
    /\ thr.lastCallTime # NoTime
    /\ now - thr.lastCallTime >= Wait
    /\ thr.timer = NoTime
    /\ \A k \in 1..MaxTasks : tasks[k].pc \notin {"snap", "frag"}

\* what a load of the room would read from the blob store
PersistedDocuments ==
    IF room.mode = "simple"
    THEN (IF r2Snapshot.present THEN r2Snapshot.body.documents ELSE <<>>)
    ELSE Concat(pages, r2Study)

(* C1: after mutations to a simple room and a quiescent period of one       *)
(* throttle interval, the snapshot persisted for the room equals the        *)
(* in-memory document state (clock and records) left by the last mutation.  *)
C1_SimplePersisted ==
    (Quiescent /\ room.mode = "simple") =>
        r2Snapshot = Blob([clock |-> room.clock, documents |-> room.documents])

\* two mutations, the second one persisted by the trailing edge of the throttle
C1_Witness ==
    /\ Quiescent
    /\ room.mode = "simple"
    /\ room.clock = 2
    /\ thr.lastInvokeTime > thr.lastCallTime
    /\ r2Snapshot = Blob([clock |-> 2, documents |-> room.documents])

\* C1 as stated, for simple and composite rooms alike
C1_AnyRoomPersisted ==
    Quiescent => PersistedDocuments = room.documents

---------------------------------------------------------------------------
(* C2: for any number of requests that reach getRoom()/getStudyRoom() on   *)
(* one actor instance before the first load has finished, in any           *)
(* interleaving, the load is started exactly once and every caller         *)
(* receives the same room object.                                          *)
C2_SingleFlight ==
    /\ loads <= 1
    /\ (roomPromise.st # "null") => loads = 1
    /\ \A c \in 1..MaxCallers :
        /\ callers[c].pc # "idle" => callers[c].promise = roomPromise.obj
        /\ callers[c].pc = "got" => callers[c].obj = roomPromise.obj

\* two requests that called before the load finished both hold the room
C2_Witness ==
    /\ callers[1].pc = "got" /\ callers[1].early
    /\ callers[2].pc = "got" /\ callers[2].early
    /\ loads = 1

(* C3: connect attaches a socket and records a session only when the token  *)
(* verifies and the verified claims name exactly the room key the actor     *)
(* holds (video.room on the simple route, attributes.nodeId on the hash     *)
(* route).                                                                  *)
C3_AttachOnlyBound ==
    (answer.kind \in {"connect", "studyConnect"} /\ answer.status = 101) =>
        /\ answer.given
        /\ answer.tok.valid
        /\ (IF answer.kind = "connect" THEN answer.tok.room ELSE answer.tok.nodeId) = roomId

\* the ledger entry of session id, as a set (empty when the ledger has none)
Stamped(led, id) == {led[i].disconnectedAt : i \in {j \in 1..Len(led) : led[j].id = id}}

(* C4: once a session's disconnect timestamp is non-empty in the persisted  *)
(* ledger, every later persisted ledger holds the same timestamp for that   *)
(* session.                                                                 *)
C4_StampKept ==
    [][\A i \in 1..Len(LedgerRead) :
          LedgerRead[i].disconnectedAt # NoTime =>
              Stamped(LedgerRead', LedgerRead[i].id) = {LedgerRead[i].disconnectedAt}]_vars

\* a reconciliation pass writes the ledger having seen no session event since
\* it read, right after a pass of which the same holds
SecondQuietWrite ==
    /\ twice.has /\ twice.quiet
    /\ \/ \E k \in 1..MaxTasks : tasks[k].pc = "write" /\ tasks[k].quiet /\ tasks'[k].pc = "idle"
       \/ \E r \in 1..MaxReqs : reqs[r].pc = "write" /\ reqs[r].quiet /\ reqs'[r].pc = "idle"
    /\ twice'.pair

(* C5: running the reconciliation twice in a row, with no connect or         *)
(* disconnect event between or during the two passes, writes the same       *)
(* persisted ledger both times.                                             *)
C5_Idempotent ==
    [][SecondQuietWrite => r2Sessions' = r2Sessions]_vars

\* the second pass of such a pair has written, at a later tick than the first
\* pass stamped a session
C5_Witness ==
    /\ twice.pair
    /\ \E i \in 1..Len(LedgerRead) :
          LedgerRead[i].disconnectedAt # NoTime /\ LedgerRead[i].disconnectedAt < now


\* record r is in the documents
Holds(docs, r) == \E k \in 1..Len(docs) : docs[k] = r

(* C6: in a mutate-pages batch where some pages fail to resolve, every page *)
(* that resolved is still committed in one store mutation, the request      *)
(* returns 200, and each of those pages is in the query-pages listing.      *)
C6_ResolvedCommitted ==
    [][\A q \in 1..MaxPuts :
          (preqs[q].pc = "pages" /\ preqs'[q].pc = "idle") =>
              /\ panswer'.kind = "put" /\ panswer'.status = 200
              /\ room'.clock <= room.clock + 1
              /\ \A i \in 1..Len(preqs[q].results) :
                    preqs[q].results[i].st = "fulfilled" =>
                        \A j \in 1..Len(preqs[q].results[i].docs) :
                            /\ Holds(room'.documents, preqs[q].results[i].docs[j])
                            /\ preqs[q].results[i].docs[j].typeName = "page" =>
                                   /\ Holds(Listing(room'.documents), preqs[q].results[i].docs[j])
                                   /\ Holds(panswer'.pages, preqs[q].results[i].docs[j])]_vars

\* a batch answered with one page committed and one page's error
C6_Witness ==
    /\ panswer.kind = "put" /\ panswer.status = 200
    /\ panswer.errors # <<>>
    /\ panswer.pages # <<>>
    /\ \A i \in 1..Len(panswer.pages) : Holds(Listing(room.documents), panswer.pages[i])

(* C7: each page of a mutate-pages batch is reported exactly once: as a     *)
(* page descriptor in the success list or as an entry in the error list     *)
(* that identifies it.                                                      *)
C7_EveryPageReported ==
    (panswer.kind = "put" /\ panswer.status = 200) =>
        \A i \in 1..Len(panswer.batch) :
            Cardinality({j \in 1..Len(panswer.pages) : panswer.pages[j].key = panswer.batch[i].id})
            + Cardinality({j \in 1..Len(panswer.errors) : panswer.errors[j] = panswer.batch[i].id}) = 1

(* C8: query-pages returns exactly the page records of the current room     *)
(* state, ascending by order key, pages of equal order key in the relative  *)
(* order they have in the snapshot.                                         *)
C8_ListingSorted ==
    [][\A q \in 1..MaxPuts :
          (preqs[q].kind = "get" /\ preqs[q].pc = "room" /\ preqs'[q].pc = "idle") =>
              /\ panswer'.kind = "get" /\ panswer'.status = 200
              /\ Len(panswer'.pages) = Len(PagesOf(room.documents))
              /\ \A d \in 1..Len(room.documents) :
                    room.documents[d].typeName = "page" => Holds(panswer'.pages, room.documents[d])
              /\ \A i, j \in 1..Len(panswer'.pages) :
                    i < j => panswer'.pages[i].index <= panswer'.pages[j].index
              /\ \A c, d \in 1..Len(room.documents), i, j \in 1..Len(panswer'.pages) :
                    (/\ c < d
                     /\ room.documents[c].typeName = "page" /\ room.documents[d].typeName = "page"
                     /\ room.documents[c].index = room.documents[d].index
                     /\ panswer'.pages[i] = room.documents[c]
                     /\ panswer'.pages[j] = room.documents[d]) => i < j]_vars

\* a listing of three pages, two of them with the same order key
C8_Witness ==
    /\ panswer.kind = "get" /\ panswer.status = 200
    /\ Len(panswer.pages) = 3
    /\ \E i, j \in 1..3 : i # j /\ panswer.pages[i].index = panswer.pages[j].index
    /\ \E i, j \in 1..3 : panswer.pages[i].index < panswer.pages[j].index

(* C9: an authorized delete-pages request removes, in one store mutation,   *)
(* every page record whose id is in the request and that exists in the      *)
(* room, returns exactly the pages it removed, and leaves every page whose  *)
(* id is not in the request unchanged.                                      *)
C9_DeletesNamedPages ==
    [][\A q \in 1..MaxPuts :
          (preqs[q].kind = "del" /\ preqs[q].pc = "room" /\ preqs'[q].pc = "idle") =>
              /\ panswer'.kind = "del" /\ panswer'.status = 200
              /\ room'.clock <= room.clock + 1
              /\ \A d \in 1..Len(room.documents) :
                    room.documents[d].typeName = "page" =>
                        IF \E i \in 1..Len(preqs[q].batch) : preqs[q].batch[i].id = room.documents[d].key
                        THEN /\ ~\E k \in 1..Len(room'.documents) :
                                    /\ room'.documents[k].typeName = "page"
                                    /\ room'.documents[k].key = room.documents[d].key
                             /\ Holds(panswer'.pages, room.documents[d])
                        ELSE /\ Holds(room'.documents, room.documents[d])
                             /\ ~Holds(panswer'.pages, room.documents[d])
              /\ \A i \in 1..Len(panswer'.pages) : Holds(room.documents, panswer'.pages[i])
              /\ \A i, j \in 1..Len(panswer'.pages) : i # j => panswer'.pages[i] # panswer'.pages[j]]_vars

\* a delete that removed a page and left another page of the room in place
C9_Witness ==
    /\ panswer.kind = "del" /\ panswer.status = 200
    /\ panswer.pages # <<>>
    /\ PagesOf(room.documents) # <<>>
    /\ \A i \in 1..Len(panswer.pages) : ~Holds(room.documents, panswer.pages[i])

RECURSIVE Joined(_)
\* the concatenation of the chunk payloads in index order
Joined(payloads) == IF payloads = <<>> THEN <<>> ELSE Head(payloads) \o Joined(Tail(payloads))

(* C10: for every T >= 1 and every order in which the T chunk requests of   *)
(* one upload arrive, after the last chunk request has completed the object *)
(* stored under the upload's base key is the concatenation of the chunk     *)
(* payloads in index order.                                                 *)
C10_Reassembled ==
    (/\ upload.chunked
     /\ upload.ctype = "image/"
     /\ \A i \in 0..(upload.T - 1) : ureqs[i].pc = "done") =>
        \E i \in 0..(upload.T - 1) :
            /\ R2Head(ureqs[i].uid, Base)
            /\ R2Get(ureqs[i].uid, Base).body = Joined(upload.payloads)

---------------------------------------------------------------------------
\* every chunk object 0..T-1 exists under the upload name uid
AllChunks(uid) == \A k \in 0..(upload.T - 1) : R2Head(uid, k)

(* C11: for every total T and every set of chunk objects in the blob store, *)
(* the completeness check returns true (and reassembly starts) if and only  *)
(* if a chunk object exists for every index in 0..T-1; it returns false     *)
(* when any single index is missing, whichever index it is.                 *)
C11_CompleteIff ==
    [][\A i \in 0..(MaxChunks - 1) :
          (ureqs[i].pc = "check" /\ ureqs'[i].pc # "check") =>
              ((ureqs'[i].pc = "get") <=> AllChunks(ureqs[i].uid))]_vars

\* the check has returned true for a total of two chunks
C11_Witness ==
    \E i \in 0..(MaxChunks - 1) :
        /\ ureqs[i].pc = "get"
        /\ upload.T = 2
        /\ AllChunks(ureqs[i].uid)

---------------------------------------------------------------------------
(* C12: an upload request for an object name that already exists (whole     *)
(* upload) or for a chunk index that already exists for that upload (chunk  *)
(* upload) is answered 409 Conflict and the stored object stays as it was.  *)
C12_DuplicateConflict ==
    \A i \in 0..(MaxChunks - 1) :
        (ureqs[i].pc = "done" /\ ureqs[i].dup # 0 /\ upload.ctype = "image/") =>
            /\ ureqs[i].status = 409
            /\ R2Head(ureqs[i].dup, PartOf(i))
            /\ R2Get(ureqs[i].dup, PartOf(i)).body = upload.payloads[i + 1]

---------------------------------------------------------------------------
(* C13: an upload request (whole or chunk) whose declared content type does *)
(* not start with image/ or video/ is rejected with 400 and writes nothing  *)
(* to the blob store.                                                       *)
C13_BadTypeRejected ==
    [][~AllowedType(upload'.ctype) =>
          /\ r2Upload' = r2Upload
          /\ \A i \in 0..(MaxChunks - 1) :
                /\ ureqs'[i].pc \in {"idle", "done"}
                /\ ureqs'[i].pc = "done" => ureqs'[i].status = 400]_vars

\* both chunk requests of a text upload have been answered 400
C13_Witness ==
    /\ upload.ctype = "text/"
    /\ upload.T = 2
    /\ \A i \in 0..1 : ureqs[i].pc = "done" /\ ureqs[i].status = 400
    /\ r2Upload = {}

---------------------------------------------------------------------------
\* the Range header names some but not all bytes of an object of `size` bytes
ProperSubRange(range, size) ==
    /\ range.form # "none"
    /\ Served(range, size) # [first |-> 0, last |-> size - 1]

(* C14: a download that requests a proper sub-range of an existing object   *)
(* of size S, in offset/length form or in suffix form, and is served bytes  *)
(* of it, returns status 206 with content-range "bytes start-end/S" where   *)
(* start and end are the first and last byte positions served.              *)
C14_RangeAccounting ==
    (/\ danswer.n > 0
     /\ danswer.status # 404
     /\ danswer.cond # "fail"
     /\ ProperSubRange(danswer.range, danswer.size)) =>
        /\ danswer.status = 206
        /\ danswer.contentRange = <<Served(danswer.range, danswer.size).first,
                                    Served(danswer.range, danswer.size).last,
                                    danswer.size>>

\* the bucket has served the middle byte of a three-byte object
C14_Witness ==
    /\ danswer.from = "bucket"
    /\ danswer.size = 3
    /\ danswer.range = [form |-> "span", o |-> 1, e |-> 1]
    /\ danswer.status = 206
    /\ danswer.contentRange = <<1, 1, 3>>

---------------------------------------------------------------------------
\* a request for the whole object: no Range header, no conditional header that fails
WholeRequest(r) == r.range.form = "none" /\ r.cond # "fail"

(* C15: a download of a whole existing object returns 200 without a         *)
(* content-range header and schedules a cache write for the request key;    *)
(* once that write has completed, an identical second request is answered   *)
(* from the edge cache, without a read of the blob store.                   *)
C15_WholeThenCached ==
    [][/\ (danswer'.from = "bucket" /\ danswer'.status # 404 /\ WholeRequest(danswer')) =>
              /\ danswer'.status = 200
              /\ danswer'.contentRange = NoContentRange
              /\ \E e \in puts' \cup cache' : e.uid = danswer'.uid
       /\ (dreq.pc = "idle" /\ dreq'.pc = "get") => ~Cached(dreq'.uid)
       /\ (dreq.pc = "idle" /\ danswer'.n # danswer.n /\ WholeRequest(danswer')) =>
              /\ Cached(danswer'.uid)
              /\ danswer'.from = "cache"
              /\ danswer'.status = 200
              /\ danswer'.contentRange = NoContentRange]_vars

\* the second request for the whole object has been answered from the cache
C15_Witness ==
    /\ danswer.n = 2
    /\ danswer.from = "cache"
    /\ danswer.status = 200
    /\ WholeRequest(danswer)
    /\ puts = {}

---------------------------------------------------------------------------
(* C16: in every reachable state the edge cache holds only responses with   *)
(* status 200, and so does every cache write that is scheduled: no sequence *)
(* of downloads puts a 206, 304 or 404 response into the cache.             *)
C16_CacheOnly200 == \A c \in cache \cup puts : c.status = 200

\* a 206 came from the bucket while the cache holds another object
C16_Witness ==
    /\ cache # {}
    /\ danswer.from = "bucket"
    /\ danswer.status = 206

---------------------------------------------------------------------------
(* C17: every request to the room actor that is answered with a missing-    *)
(* parameter (400) or auth-failure (401) error leaves all actor state       *)
(* unchanged: the bound room key (in memory and in durable storage), the    *)
(* fragment-id set, the live session map, the loaded-room state and the     *)
(* blob store are the same as before the request.                           *)
C17_ErrorsChangeNothing ==
    [][(answer' # answer /\ answer'.status \in {400, 401}) =>
          UNCHANGED <<roomId, pages, sessions, connected, room, roomPromise, loads, blobVars>>]_vars

---------------------------------------------------------------------------
\* the request of a response carried a token that verifies and names the actor's room
Authorized(a) == a.given /\ a.tok.valid /\ a.tok.room = roomId

(* C18: every connect and list-sessions request whose token is missing,     *)
(* fails verification, or verifies with claims bound to a different room is *)
(* answered with status 401, and the step that answers it changes neither   *)
(* the room state nor the session ledger.                                   *)
C18_UnauthorizedRefused ==
    [][(answer' # answer /\ answer'.kind \in {"connect", "sessions"} /\ ~Authorized(answer)') =>
          /\ answer'.status = 401
          /\ UNCHANGED <<room, sessions, r2Sessions>>]_vars

---------------------------------------------------------------------------
\* this step invokes the persistence function
Fires == \E k \in 1..MaxTasks : tasks[k].pc = "idle" /\ tasks'[k].pc = "snap"

(* C19: however fast mutations arrive, any two consecutive firings of the   *)
(* persistence write of one actor instance are at least one full throttle   *)
(* interval apart.                                                          *)
C19_OneWritePerWindow ==
    [][(Fires /\ thr.lastCallTime # NoTime) => now - thr.lastInvokeTime >= Wait]_vars

---------------------------------------------------------------------------
(* C20: every snapshot the persistence scheduler writes is the room state   *)
(* as it is when the scheduled invocation reads it (for a composite room,   *)
(* the fragments grouped from that state), including every mutation applied *)
(* since the invocation was scheduled.                                      *)
C20_ReadsAtFire ==
    [][\A k \in 1..MaxTasks :
          /\ (tasks[k].pc = "snap" /\ tasks'[k].pc = "read") =>
                r2Snapshot' = Blob([clock |-> room.clock, documents |-> room.documents])
          /\ (tasks[k].pc = "snap" /\ tasks'[k].pc = "frag") =>
                tasks'[k].frags = PageDocuments(room.documents)]_vars

\* a write that holds a mutation made after its invocation was scheduled
C20_Witness ==
    \E k \in 1..MaxTasks :
        /\ tasks[k].pc = "read"
        /\ tasks[k].late
        /\ r2Snapshot = Blob([clock |-> room.clock, documents |-> room.documents])
        /\ room.clock = 2

---------------------------------------------------------------------------
\* the ledgers held by the reconciliation pass that writes in this step (a restart,
\* which drops the passes in flight, replaces roomPromise)
WritingPass ==
    IF roomPromise' # roomPromise THEN {}
    ELSE {tasks[k].led : k \in {j \in 1..MaxTasks : tasks[j].pc = "write" /\ tasks'[j].pc = "idle"}}
         \cup {reqs[r].led : r \in {j \in 1..MaxReqs : reqs[j].pc = "write" /\ reqs'[j].pc = "idle"}}

(* C21: a reconciliation pass stamps a disconnect time on a session of the   *)
(* ledger it has loaded and merged if and only if that session has no       *)
(* disconnect time there and the engine does not report it connected; every *)
(* session of the ledger it writes has a disconnect time or is connected.   *)
C21_StampsAsLoaded ==
    [][\A led \in WritingPass :
          LET m == Merge(led, sessions)
          IN /\ Len(LedgerRead') = Len(m)
             /\ \A i \in 1..Len(m) :
                   /\ LedgerRead'[i].id = m[i].id
                   /\ (LedgerRead'[i].disconnectedAt # m[i].disconnectedAt)
                          <=> (m[i].disconnectedAt = NoTime /\ m[i].id \notin connected)
                   /\ (LedgerRead'[i].disconnectedAt # m[i].disconnectedAt)
                          => LedgerRead'[i].disconnectedAt = now
                   /\ LedgerRead'[i].disconnectedAt # NoTime \/ LedgerRead'[i].id \in connected']_vars

\* a pass has written a ledger with a session it stamped and a connected one it left
C21_Witness ==
    /\ twice.has
    /\ \E i, j \in 1..Len(LedgerRead) :
          /\ LedgerRead[i].disconnectedAt # NoTime
          /\ LedgerRead[i].id \notin connected
          /\ LedgerRead[j].disconnectedAt = NoTime
          /\ LedgerRead[j].id \in connected

\* the disconnect times session id has at the moment of the pass: in the persisted
\* ledger, or in the live session map when the ledger does not hold it yet
HeldStamps(id) ==
    IF HasId(LedgerRead, id) THEN Stamped(LedgerRead, id) ELSE Stamped(sessions, id)

\* C21 as stated, with the ledger as it is persisted when the pass stamps and writes
C21_StampIff ==
    [][WritingPass # {} =>
          \A i \in 1..Len(LedgerRead') :
              (/\ LedgerRead'[i].disconnectedAt # NoTime
               /\ Stamped(LedgerRead', LedgerRead'[i].id) # HeldStamps(LedgerRead'[i].id))
                  <=> (HeldStamps(LedgerRead'[i].id) = {NoTime} /\ LedgerRead'[i].id \notin connected)]_vars

---------------------------------------------------------------------------
\* a token of the same user (the same first segment of sub) with another name claim
Renamed == [valid |-> TRUE, room |-> SimpleKey, nodeId |-> StudyKey, sub |-> <<"u1", "y">>, name |-> "lee7a3"]

\* the tokens of the ledger's merge: none, or one of two that name this room
LedgerInputs == SessInputs \cup {[given |-> TRUE, tok |-> Renamed]}

\* the merge of the session ledger: connects with either token, list-sessions
\* passes and the pass of the persistence scheduler after one mutation, within
\* one throttle interval
NextLedger ==
    \/ \E r \in 1..MaxReqs, in \in LedgerInputs : ConnectArrive(r, in)
    \/ \E r \in 1..MaxReqs : ConnectAttach(r)
    \/ \E id \in connected : SocketClose(id)
    \/ \E r \in 1..MaxReqs, in \in LedgerInputs : SessionsArrive(r, in)
    \/ \E r \in 1..MaxReqs : SessionsRead(r)
    \/ \E r \in 1..MaxReqs : SessionsWrite(r)
    \/ LoadResolve
    \/ room.clock < 1 /\ Mutate(PageRec("p1", 1), FALSE)
    \/ now < 1 /\ Tick
    \/ \E k \in 1..MaxTasks : PersistSnapshot(k)
    \/ \E k \in 1..MaxTasks : PersistRead(k)
    \/ \E k \in 1..MaxTasks : PersistWrite(k)
    \/ Restart

SpecLedger == InitRoom /\ [][NextLedger]_vars

\* the ledger holds session e with its identifier, display name and connect time
Keeps(led, e) ==
    \E j \in 1..Len(led) :
        led[j].id = e.id /\ led[j].username = e.username /\ led[j].connectedAt = e.connectedAt

(* C22: when a reconciliation pass has written, every session of the live   *)
(* session map is in the persisted ledger and no session identifier the      *)
(* persisted ledger held before the write is missing from it, whatever       *)
(* passes, connects and restarts were interleaved with the pass.             *)
C22_IdsKept ==
    [][WritingPass # {} =>
          /\ \A i \in 1..Len(sessions') : HasId(LedgerRead', sessions'[i].id)
          /\ \A i \in 1..Len(LedgerRead) : HasId(LedgerRead', LedgerRead[i].id)]_vars

\* the ledger holds a session of an earlier actor instance next to a live one
C22_Witness ==
    /\ twice.has
    /\ Len(LedgerRead) = 2
    /\ Len(sessions) = 1
    /\ HasId(LedgerRead, sessions[1].id)
    /\ \E i \in 1..2 : ~HasId(sessions, LedgerRead[i].id)

\* C22 as stated: a session of the persisted ledger also keeps its display name
\* and its connect time
C22_LedgerOnlyGrows ==
    [][WritingPass # {} =>
          /\ \A i \in 1..Len(sessions') : HasId(LedgerRead', sessions'[i].id)
          /\ \A i \in 1..Len(LedgerRead) : Keeps(LedgerRead', LedgerRead[i])]_vars

---------------------------------------------------------------------------
\* connect request r is answered 101 in this step
Attaches(r) ==
    /\ reqs[r].kind = "connect"
    /\ reqs[r].pc = "room"
    /\ reqs'[r].pc = "idle"
    /\ roomPromise' = roomPromise

(* C23: every successful connect mints a session identifier that no session *)
(* of the live session map has, so it adds a record and replaces none, also *)
(* when two connects carry the same token subject at the same clock reading. *)
C23_FreshSessionId ==
    [][\A r \in 1..MaxReqs :
          Attaches(r) =>
              /\ ~HasId(sessions, SessionId(reqs[r].tok.sub, now))
              /\ Len(sessions') = Len(sessions) + 1
              /\ \A i \in 1..Len(sessions) : sessions'[i] = sessions[i]]_vars

---------------------------------------------------------------------------
\* no two page records of the documents have the same order key
DistinctKeys(docs) ==
    \A i, j \in 1..Len(docs) :
        (i # j /\ docs[i].typeName = "page" /\ docs[j].typeName = "page") => docs[i].index # docs[j].index

\* the rooms of PageSnapshots whose pages have distinct order keys
KeyedSnapshots == {s \in PageSnapshots : s.present => DistinctKeys(s.body.documents)}

InitOverlap ==
    /\ InitActor
    /\ r2Snapshot \in KeyedSnapshots
    /\ r2Study \in PageFragments
    /\ r2Schema = NoBlob

\* the tokens that pass the checks of mutate-pages
NodeTokens == {in \in PageTokens : PagesChecks(in, SimpleKey, TRUE) = 0}

\* the batches whose pages all have an image
ImageBatches == {b \in Batches : \A i \in 1..Len(b) : b[i].image}

\* authorized mutate-pages requests of one room that may overlap while their pages resolve
NextOverlap ==
    \/ \E q \in 1..MaxOverlap, in \in NodeTokens, b \in ImageBatches : PutArrive(q, in, b)
    \/ \E q \in 1..MaxOverlap : PutAllocate(q)
    \/ \E q \in 1..MaxOverlap, i \in 1..MaxBatch, probed \in BOOLEAN : PutResolve(q, i, probed)
    \/ \E q \in 1..MaxOverlap : room.clock < MaxEdits /\ PutCommit(q)
    \/ LoadResolve

SpecOverlap == InitOverlap /\ [][NextOverlap]_vars

(* C24: when a mutate-pages request allocates the order keys of its batch,  *)
(* every key is strictly greater than the key of every page that is in the  *)
(* room at that moment, and the keys of the batch differ from each other.   *)
C24_KeysAbove ==
    [][\A q \in 1..MaxOverlap :
          (preqs[q].pc = "room" /\ preqs'[q].pc = "pages") =>
              /\ \A i \in 1..Len(preqs'[q].keys), d \in 1..Len(room.documents) :
                    room.documents[d].typeName = "page" => preqs'[q].keys[i] > room.documents[d].index
              /\ \A i, j \in 1..Len(preqs'[q].keys) : i # j => preqs'[q].keys[i] # preqs'[q].keys[j]]_vars

\* a request has allocated two keys above the pages of a room that has pages
C24_Witness ==
    \E q \in 1..MaxOverlap :
        /\ preqs[q].pc = "pages"
        /\ Len(preqs[q].keys) = 2
        /\ PagesOf(room.documents) # <<>>
        /\ preqs[q].keys[1] > LastIndex(room.documents)

\* C24 as stated: after any interleaving of mutate-pages requests no two distinct
\* pages of the room share an order key
C24_NoSharedKey == DistinctKeys(room.documents)

---------------------------------------------------------------------------
RECURSIVE Rooted(_, _, _)
\* record d of the documents reaches a page of the documents through its parent
\* chain, in at most n steps
Rooted(docs, d, n) ==
    IF d.typeName = "page" THEN TRUE
    ELSE IF n = 0 THEN FALSE
    ELSE \E k \in 1..Len(docs) :
            /\ docs[k].typeName = d.parentType
            /\ docs[k].key = d.parentKey
            /\ Rooted(docs, docs[k], n - 1)

\* every record that has a parent reference reaches a page that exists
ParentsExist(docs) ==
    \A k \in 1..Len(docs) : docs[k].parentType # "" => Rooted(docs, docs[k], Len(docs))

(* C25: the commit of a mutate-pages request leaves no record whose parent  *)
(* chain does not end in a page of the room, when there was none before it.  *)
C25_PutKeepsParents ==
    [][\A q \in 1..MaxPuts :
          (preqs[q].pc = "pages" /\ preqs'[q].pc = "idle" /\ ParentsExist(room.documents))
              => ParentsExist(room'.documents)]_vars

\* a mutate-pages request has added a page together with a record attached to it
C25_Witness ==
    /\ panswer.kind = "put" /\ panswer.status = 200
    /\ panswer.pages # <<>>
    /\ \E k \in 1..Len(room.documents) :
          /\ room.documents[k].typeName = "shape"
          /\ room.documents[k].parentKey = panswer.pages[1].key
    /\ ParentsExist(room.documents)

\* C25 as stated: after any sequence of mutate-pages and delete-pages requests every
\* record with a parent reference reaches a page that exists in the room
C25_NoOrphans == ParentsExist(room.documents)

---------------------------------------------------------------------------
\* the composite load resolves in this step
StudyLoads ==
    /\ roomPromise.st = "pending"
    /\ roomPromise.mode = "study"
    /\ roomPromise'.st = "resolved"

(* C26: the initial snapshot of a composite room carries the separately     *)
(* persisted schema descriptor when a fragment has records (and the          *)
(* descriptor blob exists), and no schema descriptor when no fragment has   *)
(* records, whether or not the descriptor blob exists.                      *)
C26_SchemaOverlay ==
    [][StudyLoads =>
          IF Concat(pages, r2Study) = <<>> THEN room'.schema = "none"
          ELSE r2Schema.present => room'.schema = "persisted"]_vars

---------------------------------------------------------------------------
\* the fragments a user's composite rooms may have left in the bucket
StudyStores ==
    { [f \in FragIds |-> NoBlob],
      [f \in FragIds |-> IF f = "p1" THEN Blob(<<PageRec("p1", 1), ShapeRec("s1", "p1")>>)
                         ELSE Blob(<<PageRec("p2", 2)>>)] }

InitStudy ==
    /\ InitActor
    /\ r2Snapshot = NoBlob
    /\ r2Study \in StudyStores
    /\ r2Schema = NoBlob

\* the persistence scheduler of a composite room
NextStudy ==
    \/ \E c \in 1..MaxCallers, pp \in PagesParams : TouchStudy(c, pp)
    \/ \E c \in 1..MaxCallers : CallerResume(c)
    \/ \E c \in 1..MaxCallers : CallerDone(c)
    \/ LoadResolve
    \/ \E rec \in MutRecs, del \in BOOLEAN : Mutate(rec, del)
    \/ TimerExpired
    \/ Tick
    \/ \E k \in 1..MaxTasks : StudySnapshot(k)
    \/ \E k \in 1..MaxTasks : StudyPutFragment(k)
    \/ Restart

SpecStudy == InitStudy /\ [][NextStudy]_vars

\* the page-id groups of the records of the documents
Groups(docs) == {GroupOf(docs[i]) : i \in {j \in 1..Len(docs) : Grouped(docs[j])}}

(* C27: a composite-mode persistence write puts only fragment blobs whose   *)
(* id is the page-id group of a record of the snapshot the invocation took  *)
(* (and the schema descriptor blob); every other fragment blob stays as it  *)
(* is and none is deleted; when no record yields a group nothing is written. *)
C27_OnlyGroupedFragments ==
    [][\A k \in 1..MaxTasks :
          /\ (tasks[k].pc = "snap" /\ tasks[k].mode = "study" /\ tasks'[k].pc # "snap"
              /\ roomPromise' = roomPromise) =>
                /\ UNCHANGED <<r2Study, r2Snapshot, r2Sessions>>
                /\ Groups(room.documents) = {} => (UNCHANGED r2Schema /\ tasks'[k].pc = "idle")
                /\ Groups(room.documents) # {} =>
                      /\ tasks'[k].pc = "frag"
                      /\ {tasks'[k].frags[i].id : i \in 1..Len(tasks'[k].frags)} = Groups(room.documents)
          /\ (tasks[k].pc = "frag" /\ roomPromise' = roomPromise /\ tasks'[k] # tasks[k]) =>
                /\ UNCHANGED <<r2Schema, r2Snapshot, r2Sessions>>
                /\ \A f \in FragIds :
                      r2Study'[f] # r2Study[f] =>
                          /\ f = Head(tasks[k].frags).id
                          /\ r2Study'[f] = Blob(Head(tasks[k].frags).body)
                /\ \A i \in 1..Len(tasks'[k].frags) :
                      \E j \in 1..Len(tasks[k].frags) : tasks'[k].frags[i] = tasks[k].frags[j]]_vars

\* a room opened with page p1 has rewritten fragment p1 and left fragment p2 alone
C27_Witness ==
    /\ pages = <<"p1">>
    /\ r2Schema.present
    /\ r2Study["p1"] = Blob(<<PageRec("p1", 1)>>)
    /\ r2Study["p2"] = Blob(<<PageRec("p2", 2)>>)
    /\ \A k \in 1..MaxTasks : tasks[k].pc = "idle"

---------------------------------------------------------------------------
\* combineChunks(env, baseObjectName, totalChunks) called by chunk request i, for
\* every total of at least one and every set of chunk objects under that base name
InitCombine ==
    /\ now = 0
    /\ roomId = NoRoom
    /\ stored = NoRoom
    /\ pages = NoPages
    /\ roomPromise = NullPromise
    /\ loads = 0
    /\ room = NoRoomObj
    /\ callers = [c \in 1..MaxCallers |-> IdleCaller]
    /\ connected = {}
    /\ sessions = <<>>
    /\ reqs = [r \in 1..MaxReqs |-> IdleReq]
    /\ answer = NoAnswer
    /\ thr = ThrInit
    /\ tasks = [k \in 1..MaxTasks |-> IdleTask]
    /\ twice = NoTwice
    /\ preqs = [q \in 1..MaxOverlap |-> IdlePreq]
    /\ panswer = NoPanswer
    /\ r2Sessions = NoBlob
    /\ r2Snapshot = NoBlob
    /\ r2Study = [f \in FragIds |-> NoBlob]
    /\ r2Schema = NoBlob
    /\ minted = 1
    /\ cache = {}
    /\ puts = {}
    /\ dreq = IdleDreq
    /\ danswer = NoDanswer
    /\ r2Upload \in ChunkStores
    /\ \E T \in 1..MaxChunks :
          /\ upload = [T |-> T, chunked |-> TRUE, ctype |-> "image/", payloads |-> [k \in 1..T |-> <<"a">>]]
          /\ \E i \in 0..(T - 1) :
                ureqs = [k \in 0..(MaxChunks - 1) |->
                           IF k = i THEN [IdleUreq EXCEPT !.pc = "get", !.uid = 1] ELSE IdleUreq]

NextCombine ==
    \/ \E i \in 0..(MaxChunks - 1) : UpGet(i)
    \/ \E i \in 0..(MaxChunks - 1) : UpStream(i)
    \/ \E i \in 0..(MaxChunks - 1) : UpDelete(i)

SpecCombine == InitCombine /\ [][NextCombine]_vars

\* the indices in 0..T-1 of the chunk objects the store holds under upload name uid
ChunksOf(store, uid) == {k \in 0..(upload.T - 1) : \E o \in store : o.uid = uid /\ o.part = k}

\* the objects the store holds under the base key of upload name uid
BaseOf(store, uid) == {o \in store : o.uid = uid /\ o.part = Base}

(* C28: a chunk object of an upload is deleted only when the assembled      *)
(* object has been written under the base key, and when reassembly has      *)
(* ended successfully the base key holds the assembled object and no chunk  *)
(* object with index in 0..T-1 remains.                                     *)
C28_DeleteAfterWrite ==
    [][\A i \in 0..(MaxChunks - 1) :
          /\ ChunksOf(r2Upload, ureqs[i].uid) \ ChunksOf(r2Upload', ureqs[i].uid) # {} =>
                /\ ureqs[i].pc = "delete"
                /\ BaseOf(r2Upload, ureqs[i].uid) # {}
                /\ BaseOf(r2Upload', ureqs[i].uid) = BaseOf(r2Upload, ureqs[i].uid)
          /\ (ureqs[i].pc = "delete" /\ ureqs'[i].pc = "done") =>
                /\ ureqs'[i].status = 200
                /\ BaseOf(r2Upload', ureqs[i].uid) # {}
                /\ ChunksOf(r2Upload', ureqs[i].uid) = {}]_vars

\* a reassembly of two chunks has ended: the base object is there, the chunks are gone
C28_Witness ==
    \E i \in 0..(MaxChunks - 1) :
        /\ upload.T = 2
        /\ ureqs[i].pc = "done"
        /\ ureqs[i].status = 200
        /\ BaseOf(r2Upload, ureqs[i].uid) # {}
        /\ ChunksOf(r2Upload, ureqs[i].uid) = {}

---------------------------------------------------------------------------
(* C29: when a chunk with index in 0..T-1 is absent as reassembly reads the *)
(* chunks, reassembly fails with an error and changes nothing: no object is *)
(* written under the base key and no chunk object is deleted; with every    *)
(* chunk present it goes on to the combined stream.                         *)
C29_MissingChunkFails ==
    [][\A i \in 0..(MaxChunks - 1) :
          /\ ureqs[i].pc = "get" => r2Upload' = r2Upload
          /\ (ureqs[i].pc = "get" /\ ureqs'[i].pc # "get") =>
                IF ChunksOf(r2Upload, ureqs[i].uid) # 0..(upload.T - 1)
                THEN /\ ureqs'[i].pc = "done"
                     /\ ureqs'[i].status = 500
                     /\ BaseOf(r2Upload', ureqs[i].uid) = BaseOf(r2Upload, ureqs[i].uid)
                     /\ ChunksOf(r2Upload', ureqs[i].uid) = ChunksOf(r2Upload, ureqs[i].uid)
                ELSE ureqs'[i].pc = "stream"
          /\ (ureqs[i].pc = "done" /\ ureqs[i].status = 500) => UNCHANGED <<r2Upload, ureqs>>]_vars

\* a reassembly of two chunks has failed on the missing second chunk: the first
\* chunk is still there and the base key holds nothing
C29_Witness ==
    \E i \in 0..(MaxChunks - 1) :
        /\ upload.T = 2
        /\ ureqs[i].pc = "done"
        /\ ureqs[i].status = 500
        /\ ChunksOf(r2Upload, ureqs[i].uid) = {0}
        /\ BaseOf(r2Upload, ureqs[i].uid) = {}

---------------------------------------------------------------------------
(* C30: the combined stream that reassembly builds emits every byte piece   *)
(* of chunk 0, then of chunk 1, and so on up to chunk T-1, and then closes, *)
(* for every T >= 1 and every number of pieces per chunk body, so the write *)
(* to the base key ends and the request is never left waiting for it.       *)
C30_StreamCloses ==
    \A i \in 0..(MaxChunks - 1) :
        /\ ureqs[i].pc = "stream" =>
              /\ combinedStream(ureqs[i].chunks).closed
              /\ combinedStream(ureqs[i].chunks).bytes = Joined(ureqs[i].chunks)
        /\ ureqs[i].pc # "waiting"

---------------------------------------------------------------------------
---------------------------------------------------------------------------
(* DELETE /rooms/:roomId with a hash: the router's binding and handleStudyDelete *)

\* request.params.roomId of the composite routes: the key without the hash
UserKey == <<StudyKey[1]>>

\* the object keys of a composite room's blobs, as path segments:
\* study/<user>/<id>.json and study/<user>/<hash>.json
FragPath(f) == <<"study", StudyKey[1], f>>
SchemaPath == <<"study", StudyKey[1], StudyKey[2]>>
\* the keys r2.list returns, in key order
StudyPaths == <<SchemaPath, FragPath("p1"), FragPath("p2")>>

\* the object of a key is in the bucket
Present(path) ==
    IF path = SchemaPath THEN r2Schema.present
    ELSE \E f \in FragIds : path = FragPath(f) /\ r2Study[f].present

\* the key starts with `study/${roomId}/`
Under(key, path) ==
    /\ Len(path) > Len(key) + 1
    /\ SubSeq(path, 1, Len(key) + 1) = <<"study">> \o key

\* r2.list({ prefix: `study/${this.roomId}/` }).objects
StudyFiles(key) == SelectSeq(StudyPaths, LAMBDA p : Present(p) /\ Under(key, p))

\* router: if (!this.roomId) { storage.put("roomId", request.params.roomId); this.roomId = ... };
\* handleStudyDelete lists the objects under the bound key
StudyDeleteArrive(q) ==
    /\ q = FreePreq
    /\ roomId' = IF roomId = NoRoom THEN UserKey ELSE roomId
    /\ stored' = IF roomId = NoRoom THEN UserKey ELSE stored
    /\ preqs' = [preqs EXCEPT ![q] = [IdlePreq EXCEPT !.kind = "studyDelete", !.pc = "list",
                                                    !.keys = roomId',
                                                    !.results = StudyFiles(roomId')]]
    /\ UNCHANGED <<now, pages, roomPromise, loads, room, callers, blobVars, sessVars, thrVars,
                   panswer, upVars>>

\* the listing returns: r2.delete(studyFiles.objects.flatMap(file => file.key)), 200
StudyDeleteCommit(q) ==
    /\ preqs[q].kind = "studyDelete"
    /\ preqs[q].pc = "list"
    /\ r2Study' = [f \in FragIds |->
                     IF \E i \in 1..Len(preqs[q].results) : preqs[q].results[i] = FragPath(f)
                     THEN NoBlob ELSE r2Study[f]]
    /\ r2Schema' = IF \E i \in 1..Len(preqs[q].results) : preqs[q].results[i] = SchemaPath
                   THEN NoBlob ELSE r2Schema
    /\ preqs' = [preqs EXCEPT ![q] = IdlePreq]
    /\ panswer' = [NoPanswer EXCEPT !.kind = "studyDelete", !.status = 200,
                                    !.batch = preqs[q].keys, !.pages = preqs[q].results]
    /\ UNCHANGED <<now, actorVars, callers, r2Snapshot, r2Sessions, sessVars, thrVars, upVars>>

\* the blobs earlier instances of the room's scheduler may have left
InitDelete ==
    /\ InitActor
    /\ r2Snapshot = NoBlob
    /\ r2Study \in StudyStores
    /\ r2Schema = IF \E f \in FragIds : r2Study[f].present THEN Blob("schema") ELSE NoBlob

\* one composite room's actor: its hash routes, its scheduler and restarts
NextDelete ==
    \/ \E c \in 1..MaxCallers, pp \in PagesParams : CallGetStudyRoom(c, pp)
    \/ \E c \in 1..MaxCallers : CallerResume(c)
    \/ \E c \in 1..MaxCallers : CallerDone(c)
    \/ LoadResolve
    \/ \E del \in BOOLEAN : room.clock < MaxEdits /\ Mutate(PageRec("p1", 1), del)
    \/ TimerExpired
    \/ Tick
    \/ \E k \in 1..MaxTasks : StudySnapshot(k)
    \/ \E k \in 1..MaxTasks : StudyPutFragment(k)
    \/ \E q \in 1..MaxPuts : StudyDeleteArrive(q)
    \/ \E q \in 1..MaxPuts : StudyDeleteCommit(q)
    \/ Restart

SpecDelete == InitDelete /\ [][NextDelete]_vars

---------------------------------------------------------------------------
(* C31: the in-memory room key always equals the durable one, and a bound   *)
(* room key changes only in a hash request of /connect or of GET            *)
(* /rooms/:roomId/pages that finds this.pages null, which binds              *)
(* `${roomId}/${hash}` over the key held until then.                        *)
C31_RebindOnlyWithoutPages ==
    /\ [](roomId = stored)
    /\ [][(roomId # NoRoom /\ roomId' # roomId)
             => (pages = NoPages /\ pages' # NoPages /\ roomId' = StudyKey)]_vars

\* a composite delete bound the key without the hash and a later request bound
\* the composite key over it
C31_Witness ==
    /\ panswer.kind = "studyDelete"
    /\ panswer.batch = UserKey
    /\ roomId = StudyKey
    /\ stored = StudyKey

\* C31 as stated: once bound, the room key never changes, and the in-memory key
\* equals the durable one whenever it is set
C31_KeyNeverChanges ==
    /\ [][roomId # NoRoom => roomId' = roomId]_vars
    /\ [](roomId # NoRoom => roomId = stored)

---------------------------------------------------------------------------
\* a composite delete request answers
DeleteCompletes ==
    /\ \E q \in 1..MaxOverlap : preqs[q].kind = "studyDelete" /\ preqs'[q] = IdlePreq
    /\ roomPromise' = roomPromise
    /\ pages' = pages

(* C37: a composite delete removes the blobs whose key lies under           *)
(* study/<bound key>/ and no other: when the bound key is the composite key *)
(* <user>/<hash> it removes nothing, and when it is the user id alone it     *)
(* removes every fragment and schema blob it listed.                        *)
C37_DeletesUnderBoundKey ==
    [][DeleteCompletes =>
          IF panswer'.batch = StudyKey THEN UNCHANGED <<r2Study, r2Schema>>
          ELSE /\ panswer'.batch = UserKey
               /\ \A f \in FragIds :
                     r2Study'[f] = IF \E i \in 1..Len(panswer'.pages) : panswer'.pages[i] = FragPath(f)
                                   THEN NoBlob ELSE r2Study[f]
               /\ \A i \in 1..Len(StudyPaths) :
                     (\E j \in 1..Len(panswer'.pages) : panswer'.pages[j] = StudyPaths[i])
                        => ~Present(StudyPaths[i])']_vars

\* a delete answered on an actor bound to the composite key, and the fragment and
\* the schema blob the scheduler wrote are in the bucket
C37_Witness ==
    /\ panswer.kind = "studyDelete"
    /\ panswer.status = 200
    /\ panswer.batch = StudyKey
    /\ r2Study["p1"] = Blob(<<PageRec("p1", 1)>>)
    /\ r2Schema.present

\* C37 as stated: when a composite delete answers, no fragment blob and no schema
\* blob is in the bucket
C37_DeleteRemovesAll ==
    [][DeleteCompletes => (\A f \in FragIds : ~r2Study'[f].present) /\ ~r2Schema'.present]_vars

---------------------------------------------------------------------------
(* C32: getRoom() and getStudyRoom() hand out the one memoized room of the  *)
(* actor instance: a call that finds no promise starts a load in its own    *)
(* mode, and every later call of either function is handed that room,       *)
(* whichever mode loaded it.                                                *)
C32_FirstLoaderDecides ==
    [][\A c \in 1..MaxCallers :
          /\ CallGetRoom(c)
                => roomPromise'.mode = IF roomPromise.st = "null" THEN "simple" ELSE roomPromise.mode
          /\ \A pp \in PagesParams :
                CallGetStudyRoom(c, pp)
                   => roomPromise'.mode = IF roomPromise.st = "null" THEN "study" ELSE roomPromise.mode]_vars

\* a composite request (it set this.pages) came after the simple load began, and
\* every caller was handed the room loaded from the single snapshot blob
C32_Witness ==
    /\ roomPromise.st = "resolved"
    /\ roomPromise.mode = "simple"
    /\ room.mode = "simple"
    /\ pages # NoPages
    /\ \A c \in 1..MaxCallers : callers[c].pc = "got" /\ callers[c].obj = roomPromise.obj

\* C32 as stated: getRoom() hands out a room loaded from the single snapshot
\* blob and getStudyRoom() one assembled from the fragments
C32_OwnModeRoom ==
    [][\A c \in 1..MaxCallers :
          /\ CallGetRoom(c) => roomPromise'.mode = "simple"
          /\ \A pp \in PagesParams : CallGetStudyRoom(c, pp) => roomPromise'.mode = "study"]_vars

---------------------------------------------------------------------------
(* C33: a failed load stays memoized for the life of the actor instance:    *)
(* while the promise is rejected no call replaces it or starts another      *)
(* load, every call made then is handed the rejected promise, and every     *)
(* caller that resumes on it resumes with the failure.                      *)
C33_FailureMemoized ==
    [][roomPromise.st = "rejected" /\ loads' # 0 =>
          /\ roomPromise' = roomPromise
          /\ loads' = loads
          /\ \A c \in 1..MaxCallers :
                /\ (callers[c].pc = "idle" /\ callers'[c].pc = "awaiting")
                      => callers'[c].promise = roomPromise.obj
                /\ (callers[c].pc = "awaiting" /\ callers'[c].pc # "awaiting")
                      => callers'[c].pc = "failed" /\ callers'[c].obj = roomPromise.obj]_vars

\* the only load of the instance failed, one caller has received the failure and
\* another call waits on the same rejected promise
C33_Witness ==
    /\ roomPromise.st = "rejected"
    /\ loads = 1
    /\ \E c, d \in 1..MaxCallers :
          /\ callers[c].pc = "failed" /\ callers[c].obj = roomPromise.obj
          /\ callers[d].pc = "awaiting" /\ callers[d].promise = roomPromise.obj

---------------------------------------------------------------------------
(* C34: every upload request has an identifier of its own, so every object  *)
(* base key upload/<id> is written by one request only: no two requests in  *)
(* flight share an identifier, no two chunk objects of the bucket lie under *)
(* one base key, no request is answered 409, and a request of an upload of  *)
(* more than one chunk never finds the chunks complete.                     *)
C34_OwnBaseKey ==
    /\ \A i, j \in 0..(MaxChunks - 1) :
          (i # j /\ ureqs[i].uid # 0 /\ ureqs[j].uid # 0) => ureqs[i].uid # ureqs[j].uid
    /\ \A o, p \in r2Upload : (o.uid = p.uid /\ o.part # Base /\ p.part # Base) => o = p
    /\ \A i \in 0..(MaxChunks - 1) :
          /\ ureqs[i].status # 409
          /\ (upload.chunked /\ upload.T > 1)
                => ureqs[i].pc \notin {"get", "stream", "waiting", "delete"}

\* both chunk requests of a two-chunk upload were accepted, one of them also sent
\* again, and each chunk object lies under another identifier
C34_Witness ==
    /\ upload.chunked
    /\ upload.T = 2
    /\ \A i \in 0..1 : ureqs[i].pc = "done" /\ ureqs[i].status = 200
    /\ \E i \in 0..1 : ureqs[i].dup # 0
    /\ Cardinality({o.uid : o \in r2Upload}) = 3
    /\ \A o \in r2Upload : o.part # Base

---------------------------------------------------------------------------
\* the Range headers whose first byte lies in an object of `size` bytes: the last
\* byte position and the suffix length may pass the end of the object
WideRanges(size) ==
    {NoRange}
    \cup {[form |-> "span", o |-> o, e |-> e] : o \in 0..(size - 1), e \in 0..MaxSize}
    \cup {[form |-> "from", o |-> o, e |-> 0] : o \in 0..(size - 1)}
    \cup {[form |-> "suffix", o |-> n, e |-> 0] : n \in 1..(IF size = 0 THEN 0 ELSE MaxSize + 1)}

WideSatisfiable(size) == {r \in WideRanges(size) : r.form = "span" => r.o <= r.e}

\* every shape an R2Range takes for these headers
WideShapes ==
    UNION {UNION {R2Ranges(r, size) : r \in WideSatisfiable(size)} : size \in 0..MaxSize}

\* downloads with every satisfiable Range header
NextRange ==
    \/ \E uid \in 1..2 :
          \E range \in WideSatisfiable(IF R2Head(uid, Base) THEN SizeOf(uid) ELSE MaxSize),
             cond \in {"none", "pass", "fail"} : DlArrive(uid, range, cond)
    \/ \E objRange \in WideShapes : DlGet(objRange)
    \/ \E e \in puts : CachePut(e)

SpecRange == InitDownload /\ [][NextRange]_vars

\* the content-range lies within the object
InBounds(cr, size) == 0 <= cr[1] /\ cr[1] <= cr[2] /\ cr[2] <= size - 1

(* C35: the content-range the download computes from the bucket's answer    *)
(* lies within the object, 0 <= start <= end <= S-1, whenever the Range     *)
(* header asks for no byte past the end of the object (a suffix length of   *)
(* at most S, a last byte position of at most S-1).                         *)
C35_BoundsWithinObject ==
    (/\ danswer.from = "bucket"
     /\ danswer.contentRange # NoContentRange
     /\ danswer.range \in SatisfiableRanges(danswer.size)) => InBounds(danswer.contentRange, danswer.size)

\* a suffix longer than the object came back in suffix form: the start is negative
C35_Witness ==
    /\ danswer.from = "bucket"
    /\ danswer.range.form = "suffix"
    /\ danswer.range.o > danswer.size
    /\ danswer.contentRange # NoContentRange
    /\ danswer.contentRange[1] < 0

\* C35 as stated: every content-range the download computes lies within the object
C35_BoundsAlways ==
    (danswer.from = "bucket" /\ danswer.contentRange # NoContentRange)
        => InBounds(danswer.contentRange, danswer.size)

---------------------------------------------------------------------------
\* DELETE /rooms/:roomId/pages with a hash, on an actor whose room is loaded:
\* room.loadSnapshot({ clock: 0, documents: [] }) replaces the room's records by
\* none; whether the engine reports the replacement through onDataChange is the
\* engine's choice
StudyDeletePages(notify) ==
    /\ roomId # NoRoom
    /\ pages # NoPages
    /\ roomPromise.st = "resolved"
    /\ room.mode = "study"
    /\ IF notify
       THEN DataChange(<<>>)
       ELSE /\ room.clock < MaxClock
            /\ room.documents # <<>>
            /\ room' = [room EXCEPT !.clock = @ + 1, !.documents = <<>>]
            /\ UNCHANGED thrVars
    /\ UNCHANGED <<now, pageVars, upVars, roomId, stored, pages, roomPromise, loads, callers,
                   blobVars, sessVars>>

\* a composite room, its scheduler and the removal of its pages
NextTrip ==
    \/ \E c \in 1..MaxCallers, pp \in PagesParams : TouchStudy(c, pp)
    \/ \E c \in 1..MaxCallers : CallerResume(c)
    \/ \E c \in 1..MaxCallers : CallerDone(c)
    \/ LoadResolve
    \/ \E rec \in MutRecs, del \in BOOLEAN : Mutate(rec, del)
    \/ \E notify \in BOOLEAN : StudyDeletePages(notify)
    \/ TimerExpired
    \/ Tick
    \/ \E k \in 1..MaxTasks : StudySnapshot(k)
    \/ \E k \in 1..MaxTasks : StudyPutFragment(k)
    \/ Restart

SpecTrip == InitStudy /\ [][NextTrip]_vars

\* the records of the documents
Records(docs) == {docs[i] : i \in 1..Len(docs)}

\* every change of the room has been taken up by a persistence invocation that has
\* run to its end, and that invocation wrote
Persisted ==
    /\ room.loaded
    /\ room.mode = "study"
    /\ \A k \in 1..MaxTasks : tasks[k].pc = "idle"
    /\ thr.timer = NoTime
    /\ ~thr.lastArgs
    /\ PageDocuments(room.documents) # <<>>

\* the write has completed and a load would bring back a record that is not in
\* the room
C36_Witness ==
    /\ Persisted
    /\ room.clock > 0
    /\ r2Study["p1"] = Blob(room.documents)
    /\ \E d \in Records(Concat(pages, r2Study)) : d \notin Records(room.documents)

\* C36 as stated: once the write of the room's current records has completed, a
\* load of the same fragment ids assembles exactly the records in memory
C36_RoundTrip ==
    Persisted => Records(Concat(pages, r2Study)) = Records(room.documents)

=============================================================================
